---- MODULE Spec2Model ----
(***************************************************************************)
(* nzb-touch: the directory scanner, its persistent queue (C1), the worker *)
(* pool and the verification engine (Processor.ProcessNZB).                *)
(*                                                                         *)
(* Spec         - scanner, queue and workers                               *)
(*                (internal/processor/scanner.go and the Queue of the      *)
(*                processor package)                                       *)
(* FairSpec     - Spec with the fairness the Go scheduler gives its        *)
(*                goroutines                                               *)
(* ScanFairSpec - Spec with fairness for the scanning goroutine only       *)
(* SpecRestart  - Spec on the database an earlier run has left             *)
(* SpecRestartFair - the restart with the fairness of FairSpec             *)
(* SpecLongRun  - Spec with the clock passing the thirty days of the prune *)
(* SpecStop     - Spec with Stop and cancel() called again                 *)
(* SpecNZB      - one call of Processor.ProcessNZB with its fetch tasks    *)
(* FairSpecNZB  - SpecNZB with every task and every fetch returning        *)
(* SpecQueue    - the methods of the Queue called in any order             *)
(* SpecQueueRows - the same methods, followed by the rows they leave       *)
(* SpecMove     - one call of moveToFailedDirectory on paths as strings    *)
(***************************************************************************)
EXTENDS Integers, Sequences, FiniteSets, TLC

(***************************************************************************)
(* Bounds of the model.                                                    *)
(***************************************************************************)
NumPaths == 2
MaxJobs == 2
MaxLoad == 2
MaxBudget == 2
MaxInterval == 1
MaxTime == 2
TicksPerDay == 2
MaxSends == 2
MaxFiles == 2
MaxSegments == 3
MaxConcurrency == 2
MaxCalls == 3
MaxRoots == 2

Paths == 1..NumPaths
NoPath == 0
NULL == -1

\* 30 * 24 * time.Hour, in ticks
PruneAge == 30 * TicksPerDay

\* New: if concurrency <= 0 { concurrency = 10 }
DefaultConcurrency == 10

\* the check_percent and missing_percent values of the model
CheckPercents == {50, 75, 100}

MissingPercents == {0, 50}

VARIABLES
    cfg,            \* the configuration record handed to NewDirectoryScanner
    now,            \* time.Now(), in ticks
    fileExists,     \* the NZB files present under the watch directories
    queue,          \* the rows of table queue, by file_path
    dbClosed,       \* q.db has been closed
    closeCount,     \* number of Queue.Close calls
    processingQueue,\* the buffered channel of paths
    stopClosed,     \* stopChan has been closed
    ctxCancelled,   \* the outer context is done
    scan,           \* the goroutine running Start: pc, walk and reprocess lists
    startResult,    \* what Start returned
    worker,         \* the processFiles goroutines
    marksToday,     \* history: MarkProcessed calls by workers in the current day
    sendsSinceMark, \* history: channel sends of a path since its last MarkProcessed
    skipped,        \* history: why a newly added path was not sent
    scanNew,        \* history: the paths the current (or last) scan added while
                    \* nothing had been processed yet that day
    pass,           \* history: the reprocess pass of the current scan: its
                    \* availableSlots, its sends and whether a send found the
                    \* channel full
    nzb,            \* ProcessNZB: len(file.Segments) of each file of the manifest
    checkPercent,   \* ProcessNZB: its argument
    missingPercent, \* ProcessNZB: its argument
    configured,     \* the concurrency argument of New
    concurrency,    \* p.concurrency
    nzbPc,          \* ProcessNZB: where the calling goroutine is
    fileIdx,        \* ProcessNZB: the file of the manifest the loop is at
    selectedIndices,\* ProcessNZB: the segment indices selected in that file
    segIdx,         \* ProcessNZB: the segment the inner loop is at
    running,        \* the pool's tasks that are inside nntpClient.Body
    reporting,      \* the pool's tasks about to return "exceeded allowed missing"
    failedSegments, \* ProcessNZB: the counter under mu
    taskErrors,     \* the errors the pool has collected
    done,           \* which of the three contexts are done: outer, pool, local
    bodyErr,        \* what the body of ProcessNZB returned, before the defers
    nzbResult,      \* what ProcessNZB returned
    submittedOf,    \* history: the workerPool.Go calls made for each file
    fetched,        \* history: the Body calls that returned, by outcome
    qHist,          \* history of the calls on the Queue: the results of Add, the
                    \* true-returning MarkProcessed, the highest process_count
                    \* seen and whether a prune deleted the row, by path; the
                    \* number of PruneOldItems calls and what the last returned;
                    \* what the last MarkProcessed returned, the last read, and the
                    \* column added of each row, which no method reads
    mv              \* one call of moveToFailedDirectory: its receiver's fields, its
                    \* argument, its locals, the files on disk and its result

scanVars == <<cfg, now, fileExists, queue, dbClosed, closeCount,
              processingQueue, stopClosed, ctxCancelled, scan,
              startResult, worker, marksToday, sendsSinceMark, skipped,
              scanNew, pass>>

nzbVars == <<nzb, checkPercent, missingPercent, configured, concurrency, nzbPc, fileIdx,
             selectedIndices, segIdx, running, reporting, failedSegments,
             taskErrors, done, bodyErr, nzbResult, submittedOf, fetched>>

vars == <<scanVars, nzbVars, qHist, mv>>

(***************************************************************************)
(* Helpers                                                                 *)
(***************************************************************************)
Min(a, b) == IF a < b THEN a ELSE b

\* the sequences that list every element of S exactly once
Orderings(S) ==
    {s \in [1..Cardinality(S) -> S] : \A i, j \in 1..Cardinality(S) : i # j => s[i] # s[j]}

Day(t) == t \div TicksPerDay

(***************************************************************************)
(* NewDirectoryScanner                                                     *)
(***************************************************************************)
\* a scanner that would take concurrentProcessing as it comes
Capacity_NoDefault == cfg.concurrentProcessing

\* if concurrentProcessing <= 0 { concurrentProcessing = 1 }; cap(processingQueue)
Capacity == IF cfg.concurrentProcessing <= 0 THEN 1 ELSE cfg.concurrentProcessing

Workers == 1..MaxJobs

(***************************************************************************)
(* Queue (C1)                                                              *)
(***************************************************************************)
\* a row inserted with processed_at set to the time of the insert
NewRow_ProcessedAtSet ==
    [present |-> TRUE, processed |-> FALSE, processed_at |-> now, process_count |-> 0]

NoRow == [present |-> FALSE, processed |-> FALSE, processed_at |-> NULL, process_count |-> 0]

\* INSERT INTO queue (file_path, added, processed, process_count)
NewRow == [present |-> TRUE, processed |-> FALSE, processed_at |-> NULL, process_count |-> 0]

\* Queue.Contains: false on a query error (closed database)
Contains(p) == ~dbClosed /\ queue[p].present

\* an Add without the SELECT EXISTS
AddResult_NoExistsCheck(p) == ~dbClosed

\* Queue.Add: the value returned
AddResult(p) == ~dbClosed /\ ~queue[p].present

\* an Add that would replace the row of a path already present
Add_Replace(p) == IF ~dbClosed THEN [queue EXCEPT ![p] = NewRow] ELSE queue

\* Queue.Add: the table afterwards
Add(p) == IF AddResult(p) THEN [queue EXCEPT ![p] = NewRow] ELSE queue

\* Queue.MarkProcessed: the value returned
MarkProcessedResult(p) == ~dbClosed /\ queue[p].present

\* a MarkProcessed that would write 1 instead of count + 1
MarkProcessed_CountNotRead(p) ==
    IF MarkProcessedResult(p)
    THEN [queue EXCEPT ![p] = [present |-> TRUE, processed |-> TRUE, processed_at |-> now,
                               process_count |-> 1]]
    ELSE queue

\* Queue.MarkProcessed: the table afterwards
MarkProcessed(p) ==
    IF MarkProcessedResult(p)
    THEN [queue EXCEPT ![p] = [present |-> TRUE, processed |-> TRUE, processed_at |-> now,
                               process_count |-> queue[p].process_count + 1]]
    ELSE queue

\* Queue.GetItemsDueForReprocessing: the file paths of the rows returned
GetItemsDueForReprocessing(reprocessInterval) ==
    IF reprocessInterval <= 0 \/ dbClosed
    THEN {}
    ELSE {p \in Paths : /\ queue[p].present
                        /\ queue[p].processed
                        /\ queue[p].processed_at < now - reprocessInterval}

\* Queue.GetProcessedToday
GetProcessedToday ==
    IF dbClosed
    THEN 0
    ELSE LET startOfDay == Day(now) * TicksPerDay
             endOfDay == startOfDay + TicksPerDay
         IN Cardinality({p \in Paths : /\ queue[p].present
                                       /\ queue[p].processed
                                       /\ queue[p].processed_at >= startOfDay
                                       /\ queue[p].processed_at < endOfDay})

\* a prune that would not look at processed
PruneSet_AlsoUnprocessed(olderThan) ==
    IF dbClosed
    THEN {}
    ELSE {p \in Paths : /\ queue[p].present
                        /\ (~queue[p].processed \/ queue[p].processed_at < now - olderThan)}

\* Queue.PruneOldItems: the rows deleted
PruneSet(olderThan) ==
    IF dbClosed
    THEN {}
    ELSE {p \in Paths : /\ queue[p].present
                        /\ queue[p].processed
                        /\ queue[p].processed_at < now - olderThan}

\* Queue.PruneOldItems: the value returned, result.RowsAffected()
PruneOldItemsResult(olderThan) == Cardinality(PruneSet(olderThan))

\* Queue.PruneOldItems: the table afterwards
PruneOldItems(olderThan) ==
    [p \in Paths |-> IF p \in PruneSet(olderThan) THEN NoRow ELSE queue[p]]

(***************************************************************************)
(* The channel: select { case processingQueue <- path: ... default: ... }  *)
(***************************************************************************)
ChannelFull == Len(processingQueue) >= Capacity

\* a send without the default case waits for room in the channel
SelectReady_NoDefault == ~ChannelFull

\* a select with a default case never waits
SelectReady == TRUE

\* history of channel sends per path, saturating at MaxSends
Sent(p) == [sendsSinceMark EXCEPT ![p] = Min(@ + 1, MaxSends)]

(***************************************************************************)
(* Init: the state NewDirectoryScanner returns, on a fresh database        *)
(***************************************************************************)
IdleScan == [pc |-> "new", walk |-> {}, due |-> {}, items |-> <<>>]

OffWorker == [pc |-> "off", path |-> NoPath, err |-> FALSE, moved |-> FALSE]

IdleWorker == [pc |-> "idle", path |-> NoPath, err |-> FALSE, moved |-> FALSE]

ExitedWorker == [pc |-> "exited", path |-> NoPath, err |-> FALSE, moved |-> FALSE]

\* every path lies in the directory of its own number
DirOf(p) == p

\* the configurations of the model: with reprocessing enabled, watch directories
\* times workers stay within MaxLoad
Configs ==
    {c \in [watchDirs : {1..k : k \in 1..NumPaths},
            concurrentProcessing : 0..MaxJobs,
            maxFilesPerDay : 1..MaxBudget,
            reprocessInterval : 0..MaxInterval,
            failedDirectory : {"", "failed"}] :
        \/ c.reprocessInterval = 0
        \/ Cardinality(c.watchDirs) * c.concurrentProcessing <= MaxLoad}

\* no reprocess pass has begun in the scan
NoPass == [slots |-> 0, sent |-> 0, full |-> FALSE]

\* the scanner as NewDirectoryScanner returns it, and the histories
Constructed ==
    /\ now = 0
    /\ dbClosed = FALSE
    /\ closeCount = 0
    /\ processingQueue = <<>>
    /\ stopClosed = FALSE
    /\ ctxCancelled = FALSE
    /\ scan = IdleScan
    /\ startResult = "none"
    /\ worker = [w \in Workers |-> OffWorker]
    /\ marksToday = 0
    /\ sendsSinceMark = [p \in Paths |-> 0]
    /\ skipped = [p \in Paths |-> "none"]
    /\ scanNew = {}
    /\ pass = NoPass

ScanInit ==
    /\ cfg \in Configs
    /\ fileExists = [p \in Paths |-> FALSE]
    /\ queue = [p \in Paths |-> NoRow]
    /\ Constructed

NoContextDone == [outer |-> FALSE, pool |-> FALSE, local |-> FALSE]

NoneFetched == [ok |-> 0, failed |-> 0, canceled |-> 0]

\* no ProcessNZB call is modelled
NoVerification ==
    /\ nzb = <<>>
    /\ checkPercent = 100
    /\ missingPercent = 0
    /\ configured = 0
    /\ concurrency = DefaultConcurrency
    /\ nzbPc = "none"
    /\ fileIdx = 0
    /\ selectedIndices = {}
    /\ segIdx = 0
    /\ running = 0
    /\ reporting = 0
    /\ failedSegments = 0
    /\ taskErrors = 0
    /\ done = NoContextDone
    /\ bodyErr = "none"
    /\ nzbResult = "none"
    /\ submittedOf = <<>>
    /\ fetched = NoneFetched

\* no call on the Queue has been made
NoCalls ==
    [adds |-> [p \in Paths |-> <<>>],
     marks |-> [p \in Paths |-> 0],
     maxCount |-> [p \in Paths |-> 0],
     pruned |-> [p \in Paths |-> FALSE],
     prunes |-> 0,
     returned |-> 0,
     lastAdd |-> [p \in Paths |-> "none"],
     lastMark |-> [p \in Paths |-> "none"],
     lastRead |-> "none",
     added |-> [p \in Paths |-> NULL],
     verified |-> [p \in Paths |-> 0]]

\* no moveToFailedDirectory call is modelled
NoMove ==
    [pc |-> "none", watchDirs |-> <<>>, filePath |-> <<>>, failedDirectory |-> <<>>,
     files |-> {}, basePath |-> <<>>, targetPath |-> <<>>, result |-> "none"]

Init == ScanInit /\ NoVerification /\ qHist = NoCalls /\ mv = NoMove

(***************************************************************************)
(* DirectoryScanner.Start and scanDirectories                              *)
(***************************************************************************)
\* the walk of the watch directories starts: the directory entries it will visit
BeginScan ==
    /\ scan' = [pc |-> "walk", walk |-> {p \in Paths : DirOf(p) \in cfg.watchDirs /\ fileExists[p]}, due |-> {}, items |-> <<>>]
    /\ scanNew' = {}
    /\ pass' = NoPass

\* Start: spawn cap(processingQueue) workers, then the initial scan
Start ==
    /\ scan.pc = "new"
    /\ worker' = [w \in Workers |-> IF w <= Capacity THEN IdleWorker ELSE OffWorker]
    /\ BeginScan
    /\ UNCHANGED <<mv, qHist, nzbVars, cfg, now, fileExists, queue, dbClosed, closeCount, processingQueue,
                   stopClosed, ctxCancelled, startResult, marksToday,
                   sendsSinceMark, skipped>>

\* Start: case <-ticker.C
StartTick ==
    /\ scan.pc = "select"
    /\ BeginScan
    /\ UNCHANGED <<mv, qHist, nzbVars, cfg, now, fileExists, queue, dbClosed, closeCount, processingQueue,
                   stopClosed, ctxCancelled, startResult, worker,
                   marksToday, sendsSinceMark, skipped>>

\* Start: case <-s.stopChan: return nil
StartReturnStop ==
    /\ scan.pc = "select"
    /\ stopClosed
    /\ scan' = [scan EXCEPT !.pc = "returned"]
    /\ startResult' = "nil"
    /\ UNCHANGED <<mv, qHist, nzbVars, pass, cfg, now, fileExists, queue, dbClosed, closeCount, processingQueue,
                   stopClosed, ctxCancelled, worker, marksToday,
                   sendsSinceMark, skipped, scanNew>>

\* Start: case <-ctx.Done(): return ctx.Err()
StartReturnCancel ==
    /\ scan.pc = "select"
    /\ ctxCancelled
    /\ scan' = [scan EXCEPT !.pc = "returned"]
    /\ startResult' = "canceled"
    /\ UNCHANGED <<mv, qHist, nzbVars, pass, cfg, now, fileExists, queue, dbClosed, closeCount, processingQueue,
                   stopClosed, ctxCancelled, worker, marksToday,
                   sendsSinceMark, skipped, scanNew>>

\* scanDirectories: the walk callback on one directory entry
WalkCallback(p) ==
    IF ctxCancelled
    THEN \* return ctx.Err(): the walk ends
         /\ scan' = [scan EXCEPT !.walk = {}]
         /\ UNCHANGED <<queue, processingQueue, sendsSinceMark, skipped, scanNew>>
    ELSE /\ scan' = [scan EXCEPT !.walk = @ \ {p}]
         /\ IF Contains(p)
            THEN UNCHANGED <<queue, processingQueue, sendsSinceMark, skipped, scanNew>>
            ELSE /\ queue' = Add(p)
                 /\ IF AddResult(p)
                    THEN /\ scanNew' = IF GetProcessedToday = 0 THEN scanNew \cup {p} ELSE scanNew
                         /\ IF GetProcessedToday < cfg.maxFilesPerDay
                            THEN /\ SelectReady
                                 /\ IF ~ChannelFull
                                    THEN /\ processingQueue' = Append(processingQueue, p)
                                         /\ sendsSinceMark' = Sent(p)
                                         /\ skipped' = [skipped EXCEPT ![p] = "none"]
                                    ELSE /\ skipped' = [skipped EXCEPT ![p] = "full"]
                                         /\ UNCHANGED <<processingQueue, sendsSinceMark>>
                            ELSE /\ skipped' = [skipped EXCEPT ![p] = "limit"]
                                 /\ UNCHANGED <<processingQueue, sendsSinceMark>>
                    ELSE UNCHANGED <<processingQueue, sendsSinceMark, skipped, scanNew>>

scanDirectories(p) ==
    /\ scan.pc = "walk"
    /\ p \in scan.walk
    /\ WalkCallback(p)
    /\ UNCHANGED <<mv, qHist, nzbVars, pass, cfg, now, fileExists, dbClosed, closeCount, stopClosed,
                   ctxCancelled, startResult, worker, marksToday>>

(***************************************************************************)
(* checkForReprocessItems                                                  *)
(***************************************************************************)
\* if s.reprocessInterval > 0 { checkForReprocessItems }: GetItemsDueForReprocessing
ReprocessGet ==
    /\ scan.pc = "walk"
    /\ scan.walk = {}
    /\ LET due == GetItemsDueForReprocessing(cfg.reprocessInterval)
       IN scan' = IF cfg.reprocessInterval > 0 /\ due # {}
                  THEN [scan EXCEPT !.pc = "slots", !.due = due]
                  ELSE [scan EXCEPT !.pc = "prune"]
    /\ UNCHANGED <<mv, qHist, nzbVars, pass, cfg, now, fileExists, queue, dbClosed, closeCount, processingQueue,
                   stopClosed, ctxCancelled, startResult, worker,
                   marksToday, sendsSinceMark, skipped, scanNew>>

\* a pass that would not clip the list
Clip_NoLimit(items, availableSlots) == items

\* if len(itemsToReprocess) > availableSlots { itemsToReprocess = itemsToReprocess[:availableSlots] }
Clip(items, availableSlots) == SubSeq(items, 1, Min(Len(items), availableSlots))

\* availableSlots and the clipping of the list; the rows come in no promised order
ReprocessSlots ==
    /\ scan.pc = "slots"
    /\ LET availableSlots == cfg.maxFilesPerDay - GetProcessedToday
       IN /\ pass' = [pass EXCEPT !.slots = availableSlots]
          /\ IF availableSlots <= 0
             THEN scan' = [scan EXCEPT !.pc = "prune", !.due = {}]
             ELSE \E order \in Orderings(scan.due) :
                     scan' = [scan EXCEPT !.pc = "send", !.due = {},
                                          !.items = Clip(order, availableSlots)]
    /\ UNCHANGED <<mv, qHist, nzbVars, cfg, now, fileExists, queue, dbClosed, closeCount, processingQueue,
                   stopClosed, ctxCancelled, startResult, worker,
                   marksToday, sendsSinceMark, skipped, scanNew>>

\* a pass that would not look for the file
StatIsNotExist_Never(filePath) == FALSE

\* _, err := os.Stat(item.FilePath); os.IsNotExist(err)
StatIsNotExist(filePath) == ~fileExists[filePath]

\* one turn of the loop over itemsToReprocess
ReprocessSend ==
    /\ scan.pc = "send"
    /\ LET item == Head(scan.items)
           rest == Tail(scan.items)
           after(s) == [scan EXCEPT !.items = s, !.pc = IF s = <<>> THEN "prune" ELSE "send"]
       IN IF StatIsNotExist(item)
          THEN \* continue
               /\ scan' = after(rest)
               /\ UNCHANGED <<processingQueue, sendsSinceMark, pass>>
          ELSE /\ SelectReady
               /\ IF ~ChannelFull
                  THEN /\ processingQueue' = Append(processingQueue, item)
                       /\ sendsSinceMark' = Sent(item)
                       /\ pass' = [pass EXCEPT !.sent = @ + 1]
                       /\ scan' = after(rest)
                  ELSE \* default: return
                       /\ scan' = after(<<>>)
                       /\ pass' = [pass EXCEPT !.full = TRUE]
                       /\ UNCHANGED <<processingQueue, sendsSinceMark>>
    /\ UNCHANGED <<mv, qHist, nzbVars, cfg, now, fileExists, queue, dbClosed, closeCount, stopClosed,
                   ctxCancelled, startResult, worker, marksToday, skipped,
                   scanNew>>

\* scanDirectories: s.queue.PruneOldItems(30 * 24 * time.Hour), then back to the select
ScanPrune ==
    /\ scan.pc = "prune"
    /\ queue' = PruneOldItems(PruneAge)
    /\ scan' = [scan EXCEPT !.pc = "select"]
    /\ pass' = NoPass
    /\ UNCHANGED <<mv, qHist, nzbVars, cfg, now, fileExists, dbClosed, closeCount, processingQueue,
                   stopClosed, ctxCancelled, startResult, worker,
                   marksToday, sendsSinceMark, skipped, scanNew>>

(***************************************************************************)
(* processFiles: one worker                                                *)
(***************************************************************************)
\* case filePath := <-s.processingQueue
processFilesRecv(w) ==
    /\ worker[w].pc = "idle"
    /\ processingQueue # <<>>
    /\ worker' = [worker EXCEPT ![w] = [IdleWorker EXCEPT !.pc = "check",
                                                          !.path = Head(processingQueue)]]
    /\ processingQueue' = Tail(processingQueue)
    /\ UNCHANGED <<mv, qHist, nzbVars, pass, cfg, now, fileExists, queue, dbClosed, closeCount, stopClosed,
                   ctxCancelled, scan, startResult, marksToday,
                   sendsSinceMark, skipped, scanNew>>

\* a worker that would move every file it has verified
MoveAttempted_AnyOutcome(err) == cfg.failedDirectory # ""

\* if err != nil && s.failedDirectory != "": moveToFailedDirectory is called
MoveAttempted(err) == err /\ cfg.failedDirectory # ""

\* moveToFailedDirectory: the files afterwards; ok says that the rename (or the
\* copy and remove) succeeded, which takes a file that is there
moveToFailedDirectory(filePath, ok) ==
    IF ok /\ fileExists[filePath]
    THEN [fileExists EXCEPT ![filePath] = FALSE]
    ELSE fileExists

\* a worker that would skip MarkProcessed after an error
AfterProcessFile_SkipMarkOnError(w, err) ==
    IF err THEN IdleWorker ELSE [worker[w] EXCEPT !.pc = "mark", !.err = err, !.moved = FALSE]

\* a worker that would return after an error
AfterProcessFile_ReturnOnError(w, err) ==
    IF err THEN ExitedWorker ELSE [worker[w] EXCEPT !.pc = "mark", !.err = err, !.moved = FALSE]

\* the worker after processFile returned err and the failed file was dealt with
AfterProcessFile(w, err) ==
    [worker[w] EXCEPT !.pc = "mark", !.err = err, !.moved = MoveAttempted(err)]

\* a worker that would not look at the daily limit
LimitReached_Never == FALSE

\* if s.queue.GetProcessedToday() >= s.maxFilesPerDay { continue }
LimitReached == GetProcessedToday >= cfg.maxFilesPerDay

\* the worker has received a path: it discards it for the daily limit, or calls
\* processFile, whose nzb.LoadFromFile fails at once on a missing file
processFilesCheck(w) ==
    /\ worker[w].pc = "check"
    /\ IF LimitReached
       THEN /\ worker' = [worker EXCEPT ![w] = IdleWorker]
            /\ UNCHANGED fileExists
       ELSE IF ~fileExists[worker[w].path]
            THEN /\ worker' = [worker EXCEPT ![w] = AfterProcessFile(w, TRUE)]
                 /\ UNCHANGED fileExists
            ELSE /\ worker' = [worker EXCEPT ![w].pc = "verify"]
                 /\ UNCHANGED fileExists
    /\ UNCHANGED <<mv, qHist, nzbVars, pass, cfg, now, queue, dbClosed, closeCount, processingQueue,
                   stopClosed, ctxCancelled, scan, startResult, marksToday, sendsSinceMark, skipped, scanNew>>

\* processFile returns err (a parse error or ProcessNZB's error) or nil; on an
\* error the worker moves the file when a failed directory is configured.
\* With reprocessing disabled qHist.verified counts the verifications of the
\* path, saturating at MaxSends
processFile(w, err, ok) ==
    /\ worker[w].pc = "verify"
    /\ worker' = [worker EXCEPT ![w] = AfterProcessFile(w, err)]
    /\ fileExists' = IF MoveAttempted(err)
                     THEN moveToFailedDirectory(worker[w].path, ok)
                     ELSE fileExists
    /\ qHist' = IF cfg.reprocessInterval <= 0
                THEN [qHist EXCEPT !.verified[worker[w].path] = Min(@ + 1, MaxSends)]
                ELSE qHist
    /\ UNCHANGED <<mv, nzbVars, pass, cfg, now, queue, dbClosed, closeCount, processingQueue,
                   stopClosed, ctxCancelled, scan, startResult, marksToday, sendsSinceMark, skipped, scanNew>>

\* s.queue.MarkProcessed(filePath), then the next turn of the loop
processFilesMark(w) ==
    /\ worker[w].pc = "mark"
    /\ queue' = MarkProcessed(worker[w].path)
    /\ marksToday' = marksToday + 1
    /\ sendsSinceMark' = [sendsSinceMark EXCEPT ![worker[w].path] = 0]
    /\ worker' = [worker EXCEPT ![w] = IdleWorker]
    /\ UNCHANGED <<mv, qHist, nzbVars, pass, cfg, now, fileExists, dbClosed, closeCount, processingQueue,
                   stopClosed, ctxCancelled, scan, startResult, skipped,
                   scanNew>>

\* a worker that would watch stopChan only
ExitReady_StopOnly == stopClosed

\* case <-s.stopChan: return / case <-ctx.Done(): return
ExitReady == stopClosed \/ ctxCancelled

processFilesExit(w) ==
    /\ worker[w].pc = "idle"
    /\ ExitReady
    /\ worker' = [worker EXCEPT ![w] = ExitedWorker]
    /\ UNCHANGED <<mv, qHist, nzbVars, pass, cfg, now, fileExists, queue, dbClosed, closeCount, processingQueue,
                   stopClosed, ctxCancelled, scan, startResult, marksToday, sendsSinceMark, skipped, scanNew>>

(***************************************************************************)
(* The environment                                                         *)
(***************************************************************************)
\* DirectoryScanner.Stop, called once by the owner of a started scanner
Stop ==
    /\ scan.pc \notin {"new", "returned"}
    /\ ~stopClosed
    /\ stopClosed' = TRUE
    /\ dbClosed' = TRUE
    /\ closeCount' = closeCount + 1
    /\ UNCHANGED <<mv, qHist, nzbVars, pass, cfg, now, fileExists, queue, processingQueue, ctxCancelled, scan,
                   startResult, worker, marksToday, sendsSinceMark, skipped,
                   scanNew>>

\* the signal handler of scanCmd.Run: cancel()
Cancel ==
    /\ scan.pc \notin {"new", "returned"}
    /\ ~ctxCancelled
    /\ ctxCancelled' = TRUE
    /\ UNCHANGED <<mv, qHist, nzbVars, pass, cfg, now, fileExists, queue, dbClosed, closeCount, processingQueue,
                   stopClosed, scan, startResult, worker, marksToday,
                   sendsSinceMark, skipped, scanNew>>

\* the clock advances by one tick
AdvanceTime ==
    /\ now < MaxTime
    /\ now' = now + 1
    /\ marksToday' = IF Day(now + 1) # Day(now) THEN 0 ELSE marksToday
    /\ scanNew' = IF Day(now + 1) # Day(now) THEN {} ELSE scanNew
    /\ UNCHANGED <<mv, qHist, nzbVars, pass, cfg, fileExists, queue, dbClosed, closeCount, processingQueue, stopClosed,
                   ctxCancelled, scan, startResult, worker,
                   sendsSinceMark, skipped>>

\* a new NZB file appears under a watch directory
CreateFile(p) ==
    /\ DirOf(p) \in cfg.watchDirs
    /\ ~fileExists[p]
    /\ fileExists' = [fileExists EXCEPT ![p] = TRUE]
    /\ UNCHANGED <<mv, qHist, nzbVars, pass, cfg, now, queue, dbClosed, closeCount, processingQueue, stopClosed,
                   ctxCancelled, scan, startResult, worker, marksToday,
                   sendsSinceMark, skipped, scanNew>>

Next ==
    \/ Start
    \/ StartTick
    \/ StartReturnStop
    \/ StartReturnCancel
    \/ \E p \in Paths : scanDirectories(p)
    \/ ReprocessGet
    \/ ReprocessSlots
    \/ ReprocessSend
    \/ ScanPrune
    \/ \E w \in Workers : processFilesRecv(w)
    \/ \E w \in Workers : processFilesCheck(w)
    \/ \E w \in Workers, err \in BOOLEAN, ok \in BOOLEAN : processFile(w, err, ok)
    \/ \E w \in Workers : processFilesMark(w)
    \/ \E w \in Workers : processFilesExit(w)
    \/ Stop
    \/ Cancel
    \/ AdvanceTime
    \/ \E p \in Paths : CreateFile(p)

Spec == Init /\ [][Next]_vars

(***************************************************************************)
(* FairSpec: every goroutine that can take a step eventually takes it; the *)
(* ticker keeps ticking; a select that is ready again and again for        *)
(* stopChan or ctx.Done() eventually takes that case (Go picks among the   *)
(* ready cases at random).  The clock, the files, Stop and Cancel are the  *)
(* environment's and are not forced.  One configuration: one worker, two   *)
(* watch directories, a daily budget of one, reprocessing enabled.         *)
(***************************************************************************)
FairConfig ==
    [watchDirs |-> 1..NumPaths, concurrentProcessing |-> 1, maxFilesPerDay |-> 1,
     reprocessInterval |-> MaxInterval, failedDirectory |-> "failed"]

InitFair == Init /\ cfg = FairConfig

Fairness ==
    /\ WF_vars(Start)
    /\ WF_vars(StartTick)
    /\ SF_vars(StartReturnStop)
    /\ SF_vars(StartReturnCancel)
    /\ WF_vars(\E p \in Paths : scanDirectories(p))
    /\ WF_vars(ReprocessGet)
    /\ WF_vars(ReprocessSlots)
    /\ WF_vars(ReprocessSend)
    /\ WF_vars(ScanPrune)
    /\ \A w \in Workers :
        /\ WF_vars(processFilesRecv(w))
        /\ WF_vars(processFilesCheck(w))
        /\ WF_vars(\E err \in BOOLEAN, ok \in BOOLEAN : processFile(w, err, ok))
        /\ WF_vars(processFilesMark(w))
        /\ WF_vars(processFilesExit(w))

FairSpec == InitFair /\ [][Next]_vars /\ Fairness

\* ScanFairSpec: only the goroutine that runs scanDirectories is sure to take
\* its steps; the workers may stop receiving at any time
ScanFairness ==
    /\ WF_vars(\E p \in Paths : scanDirectories(p))
    /\ WF_vars(ReprocessGet)
    /\ WF_vars(ReprocessSlots)
    /\ WF_vars(ReprocessSend)
    /\ WF_vars(ScanPrune)

ScanFairSpec == InitFair /\ [][Next]_vars /\ ScanFairness

(***************************************************************************)
(* SpecRestart: the scanner is constructed on the database of an earlier   *)
(* run (NewQueue opens the file at dbPath and keeps its rows): a path has  *)
(* no row, a row never processed, or a row processed before this run       *)
(* began; its file may since have been removed.  One worker.               *)
(***************************************************************************)
\* a row that an earlier run processed, long enough ago to be due
OldRow ==
    [present |-> TRUE, processed |-> TRUE, processed_at |-> 0 - (MaxInterval + 1),
     process_count |-> 1]

InitRestart ==
    /\ cfg \in {c \in Configs : /\ c.watchDirs = Paths
                                /\ c.concurrentProcessing = 1
                                /\ c.reprocessInterval = MaxInterval
                                /\ c.failedDirectory = "failed"}
    /\ queue \in [Paths -> {NoRow, NewRow, OldRow}]
    /\ fileExists \in [Paths -> BOOLEAN]
    /\ Constructed
    /\ NoVerification
    /\ qHist = NoCalls
    /\ mv = NoMove

SpecRestart == InitRestart /\ [][Next]_vars

\* SpecRestartFair: the restart with the configuration and the fairness of
\* FairSpec; the earlier run left rows that were never processed
InitRestartFair ==
    /\ cfg = FairConfig
    /\ queue \in [Paths -> {NoRow, NewRow}]
    /\ fileExists \in [Paths -> BOOLEAN]
    /\ Constructed
    /\ NoVerification
    /\ qHist = NoCalls
    /\ mv = NoMove

SpecRestartFair == InitRestartFair /\ [][Next]_vars /\ Fairness

(***************************************************************************)
(* SpecLongRun: the process stays up for more than the thirty days that    *)
(* PruneOldItems keeps a processed row.  Reprocessing is disabled, so      *)
(* checkForReprocessItems is never entered; no failed directory is         *)
(* configured, so a file that is there stays there.  One worker.           *)
(***************************************************************************)
InitLongRun ==
    /\ Init
    /\ cfg.watchDirs = Paths
    /\ cfg.concurrentProcessing = 1
    /\ cfg.reprocessInterval = 0
    /\ cfg.failedDirectory = ""

\* the clock advances past the age at which processed rows are pruned
AdvanceMonth ==
    /\ now <= MaxTime
    /\ now' = now + PruneAge + 1
    /\ marksToday' = 0
    /\ scanNew' = {}
    /\ UNCHANGED <<mv, qHist, nzbVars, pass, cfg, fileExists, queue, dbClosed, closeCount, processingQueue, stopClosed,
                   ctxCancelled, scan, startResult, worker,
                   sendsSinceMark, skipped>>

NextLongRun ==
    \/ Start
    \/ StartTick
    \/ StartReturnStop
    \/ StartReturnCancel
    \/ \E p \in Paths : scanDirectories(p)
    \/ ReprocessGet
    \/ ScanPrune
    \/ \E w \in Workers : processFilesRecv(w)
    \/ \E w \in Workers : processFilesCheck(w)
    \/ \E w \in Workers, err \in BOOLEAN, ok \in BOOLEAN : processFile(w, err, ok)
    \/ \E w \in Workers : processFilesMark(w)
    \/ \E w \in Workers : processFilesExit(w)
    \/ Stop
    \/ Cancel
    \/ AdvanceTime
    \/ AdvanceMonth
    \/ \E p \in Paths : CreateFile(p)

SpecLongRun == InitLongRun /\ [][NextLongRun]_vars

(***************************************************************************)
(* Stop and cancel() called again                                          *)
(***************************************************************************)
\* a goroutine of a process that a panic has ended
CrashedWorker == [pc |-> "panicked", path |-> NoPath, err |-> FALSE, moved |-> FALSE]

\* Stop called again: close(s.stopChan) on the closed channel panics before
\* s.queue.Close() is reached, and the panic ends the process
StopAgain ==
    /\ scan.pc \notin {"new", "panicked"}
    /\ stopClosed
    /\ scan' = [scan EXCEPT !.pc = "panicked"]
    /\ worker' = [w \in Workers |-> IF worker[w].pc = "off" THEN OffWorker ELSE CrashedWorker]
    /\ UNCHANGED <<mv, qHist, nzbVars, pass, cfg, now, fileExists, queue, dbClosed, closeCount,
                   processingQueue, stopClosed, ctxCancelled, startResult, marksToday,
                   sendsSinceMark, skipped, scanNew>>

\* cancel() called again: a context.CancelFunc does nothing after its first call
CancelAgain ==
    /\ scan.pc \notin {"new", "panicked"}
    /\ ctxCancelled
    /\ UNCHANGED vars

NextStop ==
    \/ Next
    \/ StopAgain
    \/ CancelAgain

SpecStop == InitFair /\ [][NextStop]_vars

(***************************************************************************)
(* Processor.ProcessNZB: one call, its pool of fetch tasks                  *)
(***************************************************************************)
\* Go's integer division truncates toward zero
GoDiv(a, b) ==
    IF (a >= 0) = (b > 0) THEN a \div b ELSE -((-a) \div b)

\* New: the concurrency of the Processor
New(c) == IF c <= 0 THEN DefaultConcurrency ELSE c

RECURSIVE SumSegments(_)
SumSegments(files) ==
    IF files = <<>> THEN 0 ELSE Head(files) + SumSegments(Tail(files))

\* totalSegmentsInNZB
TotalSegmentsInNZB == SumSegments(nzb)

\* a budget that would be every segment of the manifest
AllowedMissingSegments_NoPercent == TotalSegmentsInNZB

\* allowedMissingSegments := (totalSegmentsInNZB * missingPercent) / 100
AllowedMissingSegments == GoDiv(TotalSegmentsInNZB * missingPercent, 100)

\* segmentsToCheck without "always check at least one segment"
SegmentsToCheck_NoMinimum(totalSegments) ==
    IF checkPercent < 100
    THEN GoDiv(totalSegments * checkPercent, 100)
    ELSE totalSegments

\* segmentsToCheck of a file with totalSegments segments
SegmentsToCheck(totalSegments) ==
    IF checkPercent < 100
    THEN IF GoDiv(totalSegments * checkPercent, 100) = 0
         THEN 1
         ELSE GoDiv(totalSegments * checkPercent, 100)
    ELSE totalSegments

\* the manifests of the model
Manifests ==
    UNION {[1..n -> 0..MaxSegments] : n \in 1..MaxFiles}

\* the entry of ProcessNZB, for every manifest and arguments of the model
InitNZB ==
    /\ ScanInit
    /\ cfg = [watchDirs |-> 1..NumPaths, concurrentProcessing |-> 1, maxFilesPerDay |-> 1,
              reprocessInterval |-> 0, failedDirectory |-> ""]
    /\ nzb \in Manifests
    /\ checkPercent \in CheckPercents
    /\ missingPercent \in MissingPercents
    /\ configured \in 0..MaxConcurrency
    /\ concurrency = New(configured)
    /\ nzbPc = "file"
    /\ fileIdx = 1
    /\ selectedIndices = {}
    /\ segIdx = 0
    /\ running = 0
    /\ reporting = 0
    /\ failedSegments = 0
    /\ taskErrors = 0
    /\ done = NoContextDone
    /\ bodyErr = "none"
    /\ nzbResult = "none"
    /\ submittedOf = [f \in 1..Len(nzb) |-> 0]
    /\ fetched = NoneFetched
    /\ qHist = NoCalls
    /\ mv = NoMove

\* ctx.Err() != nil, for the context made by context.WithCancel(ctx)
CtxErr == done.outer \/ done.local

\* for _, file := range nzb.Files { if ctx.Err() != nil { return ctx.Err() } ...
ReturnCtxErr ==
    /\ nzbPc = "file"
    /\ fileIdx <= Len(nzb)
    /\ CtxErr
    /\ bodyErr' = "canceled"
    /\ nzbPc' = "wait"
    /\ done' = [done EXCEPT !.local = TRUE]
    /\ UNCHANGED <<mv, qHist, scanVars, nzb, checkPercent, missingPercent, configured,
                   concurrency, fileIdx,
                   selectedIndices, segIdx, running, reporting, failedSegments,
                   taskErrors, nzbResult, submittedOf, fetched>>

\* selectedIndices := make(map[int]bool): with segmentsToCheck < totalSegments
\* the random loop is entered, otherwise every index is selected
SelectSegments ==
    /\ nzbPc = "file"
    /\ fileIdx <= Len(nzb)
    /\ ~CtxErr
    /\ IF SegmentsToCheck(nzb[fileIdx]) < nzb[fileIdx]
       THEN /\ selectedIndices' = {}
            /\ nzbPc' = "select"
       ELSE /\ selectedIndices' = 0..(nzb[fileIdx] - 1)
            /\ nzbPc' = "segments"
    /\ segIdx' = 0
    /\ UNCHANGED <<mv, qHist, scanVars, nzb, checkPercent, missingPercent, configured,
                   concurrency, fileIdx,
                   running, reporting, failedSegments, taskErrors, done, bodyErr,
                   nzbResult, submittedOf, fetched>>

\* a loop that would stop after its first draw
SelectionShort_OneDraw == selectedIndices = {}

\* for len(selectedIndices) < segmentsToCheck
SelectionShort == Cardinality(selectedIndices) < SegmentsToCheck(nzb[fileIdx])

\* idx := rand.Intn(totalSegments); selectedIndices[idx] = true: a draw of an
\* index that is selected already changes nothing
DrawIndex(idx) ==
    /\ nzbPc = "select"
    /\ SelectionShort
    /\ idx \in 0..(nzb[fileIdx] - 1)
    /\ selectedIndices' = selectedIndices \cup {idx}
    /\ UNCHANGED <<mv, qHist, scanVars, nzb, checkPercent, missingPercent, configured,
                   concurrency, nzbPc, fileIdx, segIdx,
                   running, reporting, failedSegments, taskErrors, done, bodyErr,
                   nzbResult, submittedOf, fetched>>

\* the loop condition is false: on to the segments of the file
SelectionDone ==
    /\ nzbPc = "select"
    /\ ~SelectionShort
    /\ nzbPc' = "segments"
    /\ UNCHANGED <<mv, qHist, scanVars, nzb, checkPercent, missingPercent, configured,
                   concurrency, fileIdx, selectedIndices, segIdx,
                   running, reporting, failedSegments, taskErrors, done, bodyErr,
                   nzbResult, submittedOf, fetched>>

\* a pool without WithMaxGoroutines
PoolHasRoom_Unbounded == TRUE

\* WithMaxGoroutines(p.concurrency): Go waits while that many tasks run
PoolHasRoom == running + reporting < concurrency

\* for segIdx, segment := range file.Segments: skip, or workerPool.Go, which
\* waits for a goroutine of the pool
SubmitSegment ==
    /\ nzbPc = "segments"
    /\ segIdx < nzb[fileIdx]
    /\ IF segIdx \in selectedIndices
       THEN /\ PoolHasRoom
            /\ running' = running + 1
            /\ submittedOf' = [submittedOf EXCEPT ![fileIdx] = @ + 1]
       ELSE UNCHANGED <<running, submittedOf>>
    /\ segIdx' = segIdx + 1
    /\ UNCHANGED <<mv, qHist, scanVars, nzb, checkPercent, missingPercent, configured,
                   concurrency, nzbPc,
                   fileIdx, selectedIndices, reporting, failedSegments, taskErrors,
                   done, bodyErr, nzbResult, fetched>>

\* the end of the inner loop: "File %s checked", the next file
FileChecked ==
    /\ nzbPc = "segments"
    /\ segIdx >= nzb[fileIdx]
    /\ fileIdx' = fileIdx + 1
    /\ nzbPc' = "file"
    /\ UNCHANGED <<mv, qHist, scanVars, nzb, checkPercent, missingPercent, configured,
                   concurrency,
                   selectedIndices, segIdx, running, reporting, failedSegments,
                   taskErrors, done, bodyErr, nzbResult, submittedOf, fetched>>

\* the final summary: finalFailed is read while tasks may still run
ReturnSummary ==
    /\ nzbPc = "file"
    /\ fileIdx > Len(nzb)
    /\ bodyErr' = IF failedSegments > AllowedMissingSegments THEN "failed" ELSE "nil"
    /\ nzbPc' = "wait"
    /\ done' = [done EXCEPT !.local = TRUE]
    /\ UNCHANGED <<mv, qHist, scanVars, nzb, checkPercent, missingPercent, configured,
                   concurrency, fileIdx,
                   selectedIndices, segIdx, running, reporting, failedSegments,
                   taskErrors, nzbResult, submittedOf, fetched>>

\* a task that would count every error of Body
CountsAsFailure_NoCanceledCheck(outcome) == outcome # "ok"

\* if err != nil { if errors.Is(err, context.Canceled) { return nil } ...
CountsAsFailure(outcome) == outcome \notin {"ok", "canceled"}

\* a task: nntpClient.Body returns; context.Canceled only from a done context
Body(outcome) ==
    /\ running > 0
    /\ outcome = "canceled" => done.pool
    /\ running' = running - 1
    /\ fetched' = [fetched EXCEPT ![outcome] = @ + 1]
    /\ IF CountsAsFailure(outcome)
       THEN /\ failedSegments' = failedSegments + 1
            /\ reporting' = IF failedSegments + 1 > AllowedMissingSegments
                            THEN reporting + 1
                            ELSE reporting
       ELSE UNCHANGED <<failedSegments, reporting>>
    /\ UNCHANGED <<mv, qHist, scanVars, nzb, checkPercent, missingPercent, configured,
                   concurrency, nzbPc,
                   fileIdx, selectedIndices, segIdx, taskErrors, done, bodyErr,
                   nzbResult, submittedOf>>

\* a task: cancel(); return &SegmentError{...}; the pool adds the error and
\* cancels its context (WithCancelOnError)
TaskError ==
    /\ reporting > 0
    /\ reporting' = reporting - 1
    /\ taskErrors' = taskErrors + 1
    /\ done' = [done EXCEPT !.local = TRUE, !.pool = TRUE]
    /\ UNCHANGED <<mv, qHist, scanVars, nzb, checkPercent, missingPercent, configured,
                   concurrency, nzbPc,
                   fileIdx, selectedIndices, segIdx, running, failedSegments, bodyErr,
                   nzbResult, submittedOf, fetched>>

\* the body's own return value, were it the result
WaitResult_BodyErr == IF bodyErr = "nil" THEN "nil" ELSE "error"

\* defer func() { err = workerPool.Wait() }(): the joined errors of the tasks
WaitResult == IF taskErrors > 0 THEN "error" ELSE "nil"

\* workerPool.Wait() returns when no task is left
Wait ==
    /\ nzbPc = "wait"
    /\ running = 0
    /\ reporting = 0
    /\ nzbResult' = WaitResult
    /\ nzbPc' = "done"
    /\ done' = [done EXCEPT !.pool = TRUE]
    /\ UNCHANGED <<mv, qHist, scanVars, nzb, checkPercent, missingPercent, configured,
                   concurrency, fileIdx,
                   selectedIndices, segIdx, running, reporting, failedSegments,
                   taskErrors, bodyErr, submittedOf, fetched>>

\* the caller's context is cancelled; the pool's and the local one derive from it
CancelOuter ==
    /\ nzbPc \in {"file", "select", "segments", "wait"}
    /\ ~done.outer
    /\ done' = [outer |-> TRUE, pool |-> TRUE, local |-> TRUE]
    /\ UNCHANGED <<mv, qHist, scanVars, nzb, checkPercent, missingPercent, configured,
                   concurrency, nzbPc,
                   fileIdx, selectedIndices, segIdx, running, reporting,
                   failedSegments, taskErrors, bodyErr, nzbResult, submittedOf,
                   fetched>>

NextNZB ==
    \/ ReturnCtxErr
    \/ SelectSegments
    \/ \E idx \in 0..(MaxSegments - 1) : DrawIndex(idx)
    \/ SelectionDone
    \/ SubmitSegment
    \/ FileChecked
    \/ ReturnSummary
    \/ \E outcome \in {"ok", "failed", "canceled"} : Body(outcome)
    \/ TaskError
    \/ Wait
    \/ CancelOuter

SpecNZB == InitNZB /\ [][NextNZB]_vars

\* FairSpecNZB: the goroutine of ProcessNZB and the tasks of the pool take the
\* steps they can take; every nntpClient.Body call returns; rand.Intn does not
\* return selected indices only, for ever.  The caller's cancellation is not
\* forced.
FairnessNZB ==
    /\ WF_vars(ReturnCtxErr)
    /\ WF_vars(SelectSegments)
    /\ WF_vars(\E idx \in 0..(MaxSegments - 1) : DrawIndex(idx))
    /\ WF_vars(SelectionDone)
    /\ WF_vars(SubmitSegment)
    /\ WF_vars(FileChecked)
    /\ WF_vars(ReturnSummary)
    /\ WF_vars(\E outcome \in {"ok", "failed", "canceled"} : Body(outcome))
    /\ WF_vars(TaskError)
    /\ WF_vars(Wait)

FairSpecNZB == InitNZB /\ [][NextNZB]_vars /\ FairnessNZB

(***************************************************************************)
(* The Queue under any client: its methods called in any order, each one   *)
(* atomic under q.mu                                                       *)
(***************************************************************************)
\* the durations PruneOldItems is called with
PruneDurations == {PruneAge}

InitQueue ==
    /\ ScanInit
    /\ cfg = [watchDirs |-> 1..NumPaths, concurrentProcessing |-> 1, maxFilesPerDay |-> 1,
              reprocessInterval |-> 0, failedDirectory |-> ""]
    /\ NoVerification
    /\ qHist = NoCalls
    /\ mv = NoMove

QueueAdd(p) ==
    /\ Len(qHist.adds[p]) < MaxCalls
    /\ queue' = Add(p)
    /\ qHist' = [qHist EXCEPT !.adds[p] = Append(@, AddResult(p)),
                              !.marks[p] = IF AddResult(p) THEN 0 ELSE @]
    /\ UNCHANGED <<mv, nzbVars, pass, cfg, now, fileExists, dbClosed, closeCount, processingQueue,
                   stopClosed, ctxCancelled, scan, startResult, worker, marksToday,
                   sendsSinceMark, skipped, scanNew>>

QueueMarkProcessed(p) ==
    /\ qHist.marks[p] < MaxCalls
    /\ queue' = MarkProcessed(p)
    /\ qHist' = [qHist EXCEPT !.marks[p] = IF MarkProcessedResult(p) THEN @ + 1 ELSE @,
                              !.maxCount[p] = IF queue'[p].process_count > @
                                              THEN queue'[p].process_count
                                              ELSE @]
    /\ UNCHANGED <<mv, nzbVars, pass, cfg, now, fileExists, dbClosed, closeCount, processingQueue,
                   stopClosed, ctxCancelled, scan, startResult, worker, marksToday,
                   sendsSinceMark, skipped, scanNew>>

QueuePruneOldItems(olderThan) ==
    /\ qHist.prunes < MaxCalls
    /\ queue' = PruneOldItems(olderThan)
    /\ qHist' = [qHist EXCEPT !.pruned = [p \in Paths |-> @[p] \/ p \in PruneSet(olderThan)],
                              !.prunes = @ + 1,
                              !.returned = PruneOldItemsResult(olderThan)]
    /\ UNCHANGED <<mv, nzbVars, pass, cfg, now, fileExists, dbClosed, closeCount, processingQueue,
                   stopClosed, ctxCancelled, scan, startResult, worker, marksToday,
                   sendsSinceMark, skipped, scanNew>>

\* time.Now() moves on: by a tick, or once by the age that PruneOldItems is
\* called with
QueueClock(step) ==
    /\ IF step = 1 THEN now % PruneAge < MaxTime ELSE now < PruneAge
    /\ now' = now + step
    /\ UNCHANGED <<mv, qHist, nzbVars, pass, cfg, fileExists, queue, dbClosed, closeCount,
                   processingQueue, stopClosed, ctxCancelled, scan, startResult, worker,
                   marksToday, sendsSinceMark, skipped, scanNew>>

NextQueue ==
    \/ \E p \in Paths : QueueAdd(p)
    \/ \E p \in Paths : QueueMarkProcessed(p)
    \/ \E olderThan \in PruneDurations : QueuePruneOldItems(olderThan)
    \/ \E step \in {1, PruneAge} : QueueClock(step)

SpecQueue == InitQueue /\ [][NextQueue]_vars

(***************************************************************************)
(* The rows of the Queue under any client: the same methods, followed by   *)
(* what they leave in the table (qHist.added is the column added) and the  *)
(* value the last call on a path returned                                  *)
(***************************************************************************)
\* INSERT INTO queue (file_path, added, ...) VALUES (?, time.Now(), ...)
AddedAfterAdd(p) ==
    IF AddResult(p) THEN [qHist.added EXCEPT ![p] = now] ELSE qHist.added

\* UPDATE queue SET processed = 1, processed_at = ?, process_count = ?: the
\* column added is not among those set
AddedAfterMarkProcessed(p) == qHist.added

\* DELETE FROM queue: the deleted rows have no column any more
AddedAfterPruneOldItems(olderThan) ==
    [p \in Paths |-> IF p \in PruneSet(olderThan) THEN NULL ELSE qHist.added[p]]

Returned(result) == IF result THEN "true" ELSE "false"

RowAdd(p) ==
    /\ queue' = Add(p)
    /\ qHist' = [qHist EXCEPT !.lastAdd[p] = Returned(AddResult(p)),
                              !.added = AddedAfterAdd(p)]
    /\ UNCHANGED <<mv, nzbVars, pass, cfg, now, fileExists, dbClosed, closeCount, processingQueue,
                   stopClosed, ctxCancelled, scan, startResult, worker, marksToday,
                   sendsSinceMark, skipped, scanNew>>

RowMarkProcessed(p) ==
    /\ queue[p].process_count < MaxCalls
    /\ queue' = MarkProcessed(p)
    /\ qHist' = [qHist EXCEPT !.lastMark[p] = Returned(MarkProcessedResult(p)),
                              !.added = AddedAfterMarkProcessed(p)]
    /\ UNCHANGED <<mv, nzbVars, pass, cfg, now, fileExists, dbClosed, closeCount, processingQueue,
                   stopClosed, ctxCancelled, scan, startResult, worker, marksToday,
                   sendsSinceMark, skipped, scanNew>>

RowPruneOldItems(olderThan) ==
    /\ queue' = PruneOldItems(olderThan)
    /\ qHist' = [qHist EXCEPT !.added = AddedAfterPruneOldItems(olderThan)]
    /\ UNCHANGED <<mv, nzbVars, pass, cfg, now, fileExists, dbClosed, closeCount, processingQueue,
                   stopClosed, ctxCancelled, scan, startResult, worker, marksToday,
                   sendsSinceMark, skipped, scanNew>>

\* the methods that only read: Contains, GetItemsDueForReprocessing and
\* GetProcessedToday run a SELECT under q.mu.RLock() and write nothing
Reads == {"Contains", "GetItemsDueForReprocessing", "GetProcessedToday"}

QueueRead(method) ==
    /\ qHist.lastRead # method
    /\ qHist' = [qHist EXCEPT !.lastRead = method]
    /\ UNCHANGED <<mv, nzbVars, pass, cfg, now, fileExists, queue, dbClosed, closeCount,
                   processingQueue, stopClosed, ctxCancelled, scan, startResult, worker,
                   marksToday, sendsSinceMark, skipped, scanNew>>

NextQueueRows ==
    \/ \E p \in Paths : RowAdd(p)
    \/ \E p \in Paths : RowMarkProcessed(p)
    \/ \E olderThan \in PruneDurations : RowPruneOldItems(olderThan)
    \/ \E method \in Reads : QueueRead(method)
    \/ \E step \in {1, PruneAge} : QueueClock(step)

SpecQueueRows == InitQueue /\ [][NextQueueRows]_vars

(***************************************************************************)
(* Paths: a path is the sequence of its characters.  filepath.Clean, Join, *)
(* Abs, Rel and Base and strings.HasPrefix, as Go computes them on Unix.   *)
(***************************************************************************)
Dot == <<".">>

DotDot == <<".", ".">>

Separator == <<"/">>

\* the working directory of the process
Cwd == <<"/", "w">>

\* the elements of a path between its separators, empty ones included
RECURSIVE SplitFrom(_, _, _, _)
SplitFrom(path, i, cur, acc) ==
    IF i > Len(path)
    THEN Append(acc, cur)
    ELSE IF path[i] = "/"
         THEN SplitFrom(path, i + 1, <<>>, Append(acc, cur))
         ELSE SplitFrom(path, i + 1, Append(cur, path[i]), acc)

Split(path) == SplitFrom(path, 1, <<>>, <<>>)

RECURSIVE JoinElems(_)
JoinElems(elems) ==
    IF elems = <<>>
    THEN <<>>
    ELSE IF Len(elems) = 1
         THEN Head(elems)
         ELSE Head(elems) \o Separator \o JoinElems(Tail(elems))

IsAbs(path) == path # <<>> /\ path[1] = "/"

\* filepath.Clean: the loop over the elements; out is the output so far
RECURSIVE CleanElems(_, _, _)
CleanElems(elems, out, rooted) ==
    IF elems = <<>>
    THEN out
    ELSE LET e == Head(elems)
             rest == Tail(elems)
         IN IF e = <<>> \/ e = Dot
            THEN CleanElems(rest, out, rooted)
            ELSE IF e = DotDot
                 THEN IF out # <<>> /\ out[Len(out)] # DotDot
                      THEN CleanElems(rest, SubSeq(out, 1, Len(out) - 1), rooted)
                      ELSE IF rooted
                           THEN CleanElems(rest, out, rooted)
                           ELSE CleanElems(rest, Append(out, e), rooted)
                 ELSE CleanElems(rest, Append(out, e), rooted)

\* filepath.Clean
Clean(path) ==
    IF path = <<>>
    THEN Dot
    ELSE LET out == CleanElems(Split(path), <<>>, IsAbs(path))
         IN IF IsAbs(path)
            THEN Separator \o JoinElems(out)
            ELSE IF out = <<>> THEN Dot ELSE JoinElems(out)

\* filepath.Join of two elements: empty elements are ignored
Join(a, b) ==
    IF a = <<>>
    THEN IF b = <<>> THEN <<>> ELSE Clean(b)
    ELSE IF b = <<>> THEN Clean(a) ELSE Clean(a \o Separator \o b)

\* filepath.Abs
Abs(path) == IF IsAbs(path) THEN Clean(path) ELSE Join(Cwd, path)

\* strings.HasPrefix
HasPrefix(str, prefix) ==
    Len(prefix) <= Len(str) /\ SubSeq(str, 1, Len(prefix)) = prefix

\* the number of leading elements two cleaned paths share
RECURSIVE CommonElems(_, _)
CommonElems(b, t) ==
    IF b # <<>> /\ t # <<>> /\ Head(b) = Head(t)
    THEN 1 + CommonElems(Tail(b), Tail(t))
    ELSE 0

\* the elements of a cleaned path ("." has none)
Elems(path) ==
    LET RECURSIVE NonEmpty(_)
        NonEmpty(es) == IF es = <<>> THEN <<>>
                        ELSE IF Head(es) = <<>> THEN NonEmpty(Tail(es))
                        ELSE <<Head(es)>> \o NonEmpty(Tail(es))
    IN IF path = Dot THEN <<>> ELSE NonEmpty(Split(path))

\* filepath.Rel: the error and the path returned
Rel(basepath, targpath) ==
    LET base == Clean(basepath)
        targ == Clean(targpath)
        b == Elems(base)
        t == Elems(targ)
        k == CommonElems(b, t)
        up == [i \in 1..(Len(b) - k) |-> DotDot]
    IN IF targ = base
       THEN [err |-> FALSE, path |-> Dot]
       ELSE IF IsAbs(base) # IsAbs(targ)
            THEN [err |-> TRUE, path |-> <<>>]
            ELSE IF k < Len(b) /\ b[k + 1] = DotDot
                 THEN [err |-> TRUE, path |-> <<>>]
                 ELSE [err |-> FALSE, path |-> JoinElems(up \o SubSeq(t, k + 1, Len(t)))]

\* filepath.Base
Base(path) ==
    IF path = <<>>
    THEN Dot
    ELSE IF Elems(path) = <<>> /\ IsAbs(path)
         THEN Separator
         ELSE Elems(path)[Len(Elems(path))]

(***************************************************************************)
(* moveToFailedDirectory, one call: the watch directories and the failed   *)
(* directory are those of a configuration; the file was found by the walk  *)
(* of a watch directory, of this run or (its row being in the database) of *)
(* an earlier run with other watch directories                             *)
(***************************************************************************)
\* the watch_directories of the model
WatchRoots == {<<"/", "n">>, <<"/", "n", "2">>, <<"/", "n", "/", "s">>}

\* the failed_directory values of the model
FailedDirectories == {<<"/", "f">>, <<"f">>}

\* the paths of the files below a watch directory
RelativeFiles == {<<"a">>, <<"s", "/", "a">>}

\* the lists of at most MaxRoots watch directories, none twice
WatchDirLists ==
    {ds \in UNION {[1..n -> WatchRoots] : n \in 1..MaxRoots} :
        \A i, j \in 1..Len(ds) : i # j => ds[i] # ds[j]}

InitMove ==
    /\ ScanInit
    /\ cfg = [watchDirs |-> 1..NumPaths, concurrentProcessing |-> 1, maxFilesPerDay |-> 1,
              reprocessInterval |-> 0, failedDirectory |-> "failed"]
    /\ NoVerification
    /\ qHist = NoCalls
    /\ \E ds \in WatchDirLists, fd \in FailedDirectories, rel \in RelativeFiles :
         \E root \in WatchRoots :
           mv = [pc |-> "mkdir", watchDirs |-> ds, filePath |-> Join(root, rel),
                 failedDirectory |-> fd, files |-> {Abs(Join(root, rel))},
                 basePath |-> <<>>, targetPath |-> <<>>, result |-> "none"]

\* if s.failedDirectory == "" { return nil }; os.MkdirAll(s.failedDirectory, 0755)
MoveMkdirAll(ok) ==
    /\ mv.pc = "mkdir"
    /\ mv' = IF mv.failedDirectory = <<>>
             THEN [mv EXCEPT !.pc = "returned", !.result = "nil"]
             ELSE IF ok
                  THEN [mv EXCEPT !.pc = "base"]
                  ELSE [mv EXCEPT !.pc = "returned", !.result = "error"]
    /\ UNCHANGED <<scanVars, nzbVars, qHist>>

\* the watch directories that strings.HasPrefix accepts, by their place in the list
PrefixMatches ==
    {i \in 1..Len(mv.watchDirs) : HasPrefix(Abs(mv.filePath), Abs(mv.watchDirs[i]))}

\* for _, watchDir := range s.watchDirs { ... basePath = absWatchDir; break }
MoveBasePath ==
    /\ mv.pc = "base"
    /\ mv' = [mv EXCEPT !.pc = "target",
                        !.basePath = IF PrefixMatches = {}
                                     THEN <<>>
                                     ELSE Abs(mv.watchDirs[CHOOSE i \in PrefixMatches :
                                                  \A j \in PrefixMatches : i <= j])]
    /\ UNCHANGED <<scanVars, nzbVars, qHist>>

\* targetPath, from the relative path or from the file name
TargetPath ==
    IF mv.basePath # <<>>
    THEN LET rel == Rel(mv.basePath, Abs(mv.filePath))
         IN Join(mv.failedDirectory, IF rel.err THEN Base(mv.filePath) ELSE rel.path)
    ELSE Join(mv.failedDirectory, Base(mv.filePath))

\* targetPath; os.MkdirAll(filepath.Dir(targetPath), 0755)
MoveTargetPath(ok) ==
    /\ mv.pc = "target"
    /\ mv' = IF ok
             THEN [mv EXCEPT !.pc = "rename", !.targetPath = TargetPath]
             ELSE [mv EXCEPT !.pc = "returned", !.targetPath = TargetPath, !.result = "error"]
    /\ UNCHANGED <<scanVars, nzbVars, qHist>>

\* os.Rename: nothing changes when both names are the same file
Rename(files, src, dst) == (files \ {Abs(src)}) \cup {Abs(dst)}

\* copyFile: os.Create makes or truncates dst
CopyFile(files, src, dst) == files \cup {Abs(dst)}

\* os.Rename, and when it fails copyFile and os.Remove; a rename across file
\* systems fails, and so can the copy and the remove
MoveRename(renameOK, copyOK, removeOK) ==
    /\ mv.pc = "rename"
    /\ mv' = IF renameOK /\ Abs(mv.filePath) \in mv.files
             THEN [mv EXCEPT !.pc = "returned", !.result = "nil",
                             !.files = Rename(mv.files, mv.filePath, mv.targetPath)]
             ELSE IF ~(copyOK /\ Abs(mv.filePath) \in mv.files)
                  THEN [mv EXCEPT !.pc = "returned", !.result = "error"]
                  ELSE IF removeOK
                       THEN [mv EXCEPT !.pc = "returned", !.result = "nil",
                                       !.files = CopyFile(mv.files, mv.filePath, mv.targetPath)
                                                     \ {Abs(mv.filePath)}]
                       ELSE [mv EXCEPT !.pc = "returned", !.result = "error",
                                       !.files = CopyFile(mv.files, mv.filePath, mv.targetPath)]
    /\ UNCHANGED <<scanVars, nzbVars, qHist>>

NextMove ==
    \/ \E ok \in BOOLEAN : MoveMkdirAll(ok)
    \/ MoveBasePath
    \/ \E ok \in BOOLEAN : MoveTargetPath(ok)
    \/ \E renameOK \in BOOLEAN, copyOK \in BOOLEAN, removeOK \in BOOLEAN :
           MoveRename(renameOK, copyOK, removeOK)

SpecMove == InitMove /\ [][NextMove]_vars

(***************************************************************************)
(* State functions the claims use                                          *)
(***************************************************************************)
\* the workers that were spawned
Spawned == {w \in Workers : worker[w].pc # "off"}

\* the worker holds the path: received and not yet marked or discarded
Holds(w, p) == worker[w].pc \in {"check", "verify", "mark"} /\ worker[w].path = p

InChannel(p) == \E i \in 1..Len(processingQueue) : processingQueue[i] = p

\* the path is on its way to a verification, or has had one
PickedUp(p) == InChannel(p) \/ (\E w \in Workers : Holds(w, p)) \/ queue[p].processed

\* Start is in its loop and neither Stop nor the cancellation has happened
SchedulerRunning == scan.pc \notin {"new", "returned"} /\ ~stopClosed /\ ~ctxCancelled

\* the row was added and left out of the channel for the given reason
LeftInQueue(p, why) == skipped[p] = why /\ queue[p].present /\ ~queue[p].processed

\* nothing is on its way: Start waits in its select, the channel is empty and
\* every worker waits for a path
Quiescent ==
    /\ scan.pc = "select"
    /\ processingQueue = <<>>
    /\ \A w \in Spawned : worker[w].pc = "idle"

ProcessedToday(p) ==
    queue[p].present /\ queue[p].processed /\ Day(queue[p].processed_at) = Day(now)

(***************************************************************************)
(* C1: two verifications (processFile calls) of the same file_path never   *)
(* run at the same time.  The code violates it: an item due for            *)
(* reprocessing is sent again by the next scan while a worker verifies it. *)
(***************************************************************************)
C1_NoConcurrentVerification ==
    \A w1, w2 \in Workers :
        (w1 # w2 /\ worker[w1].pc = "verify" /\ worker[w2].pc = "verify")
            => worker[w1].path # worker[w2].path

(***************************************************************************)
(* C2: a path that Add accepted and that was not sent because the channel  *)
(* was full is picked up at a later scan or reprocessing tick, as long as  *)
(* the file exists and the scheduler keeps running.  The code violates it: *)
(* no scan sends a row with processed = false again.                       *)
(***************************************************************************)
C2_FullChannelPickedUpLater ==
    \A p \in Paths :
        [](LeftInQueue(p, "full")
             => <>(PickedUp(p) \/ ~fileExists[p] \/ ~SchedulerRunning))

(***************************************************************************)
(* C3: in one day the workers make at most                                 *)
(* max_files_per_day + concurrent_jobs - 1 MarkProcessed calls, also when  *)
(* one path is processed more than once that day.  Stated for the open     *)
(* queue.  The code violates it: GetProcessedToday counts rows, and a path *)
(* marked twice that day is one row.                                       *)
(***************************************************************************)
C3_DailyBudget == ~dbClosed => marksToday <= cfg.maxFilesPerDay + Capacity - 1

(***************************************************************************)
(* C4: ProcessNZB returns an error if and only if the number of fetches    *)
(* that failed with a non-cancellation error, over all files of the        *)
(* manifest, is greater than floor(total_segments * missing_percent / 100).*)
(***************************************************************************)
C4_ErrorIffBudgetExceeded ==
    nzbPc = "done" =>
        (nzbResult = "error"
            <=> failedSegments > (TotalSegmentsInNZB * missingPercent) \div 100)

\* two files, a budget of one, the second failure came while the loop went on
C4_Witness ==
    /\ nzbPc = "done"
    /\ nzbResult = "error"
    /\ Len(nzb) = 2
    /\ AllowedMissingSegments = 1
    /\ failedSegments = 2
    /\ bodyErr = "canceled"

(***************************************************************************)
(* C5: an item due for reprocessing is sent onto the channel at most once  *)
(* between two consecutive MarkProcessed of its path.  The code violates   *)
(* it: every scan sends the item again until a worker has marked it.       *)
(***************************************************************************)
C5_SentOncePerPeriod ==
    \A p \in Paths : queue[p].processed => sendsSinceMark[p] <= 1

(***************************************************************************)
(* C6: a path added while the daily limit was reached stays in C1 with     *)
(* processed = false and is sent to a worker and verified once the budget  *)
(* is available again.  The code violates it, for the reason of C2.        *)
(***************************************************************************)
C6_DeferredPickedUpLater ==
    \A p \in Paths :
        []((LeftInQueue(p, "limit") /\ GetProcessedToday < cfg.maxFilesPerDay)
             => <>(\/ PickedUp(p)
                   \/ ~fileExists[p]
                   \/ ~SchedulerRunning
                   \/ GetProcessedToday >= cfg.maxFilesPerDay))

(***************************************************************************)
(* C7: when one scan discovers more new files than max_files_per_day, with *)
(* none processed yet that day, exactly max_files_per_day of them are      *)
(* verified that day.  Stated for the running scheduler at the end of the  *)
(* work of that day: nothing is on its way any more.  The code violates    *)
(* it: two workers that both passed the limit check verify two files       *)
(* against a budget of one.                                                *)
(***************************************************************************)
C7_ExactlyBudgetVerified ==
    (SchedulerRunning /\ Quiescent /\ Cardinality(scanNew) > cfg.maxFilesPerDay)
        => Cardinality({p \in scanNew : ProcessedToday(p)}) = cfg.maxFilesPerDay

(***************************************************************************)
(* C8: once the outer scope is cancelled (or Stop was called) and Start    *)
(* has returned, C1 has been closed exactly once.  The code violates it:   *)
(* scanCmd.Run never calls Stop, so after a cancellation nothing closes    *)
(* the queue.                                                              *)
(***************************************************************************)
C8_QueueClosedOnce == scan.pc = "returned" => closeCount = 1

(***************************************************************************)
(* C9: after the outer scope is cancelled (and no Stop follows) Start      *)
(* eventually returns the cancellation cause; after Stop with the scope    *)
(* not cancelled Start eventually returns no error; in both cases every    *)
(* worker eventually exits.  Start returns nothing else.                   *)
(***************************************************************************)
AllWorkersExited == \A w \in Spawned : worker[w].pc = "exited"

C9_StartReturnsWorkersExit ==
    /\ [](startResult = "canceled" => ctxCancelled)
    /\ [](startResult = "nil" => stopClosed)
    /\ [](scan.pc = "returned" <=> startResult \in {"nil", "canceled"})
    /\ (ctxCancelled ~> (startResult = "canceled" \/ stopClosed))
    /\ (stopClosed ~> (startResult = "nil" \/ ctxCancelled))
    /\ ((stopClosed \/ ctxCancelled) ~> (scan.pc = "returned" /\ AllWorkersExited))

\* cancelled while a verification was going on; Start has returned the cause and
\* the worker has marked its path and exited
C9_Witness ==
    /\ ctxCancelled
    /\ ~stopClosed
    /\ startResult = "canceled"
    /\ Spawned # {}
    /\ AllWorkersExited
    /\ \E p \in Paths : queue[p].processed /\ queue[p].processed_at = now

(***************************************************************************)
(* C10: for every path a worker dequeues and does not discard for the      *)
(* daily limit, MarkProcessed(path) is called exactly once, whatever the   *)
(* outcome, and only after the verification has returned and the move to   *)
(* the failed directory has been attempted.  As a property of every step:  *)
(* a discard calls nothing; the verification ends in the state that calls  *)
(* MarkProcessed, with the move attempted when it failed; the worker takes *)
(* its next path only through that one call; nobody else calls it.         *)
(***************************************************************************)
C10_Step(w) ==
    LET job == worker[w]
        after == worker'[w]
    IN /\ (job.pc = "check" /\ after # job) =>
              /\ queue' = queue
              /\ marksToday' = marksToday
              /\ \/ after = IdleWorker /\ GetProcessedToday >= cfg.maxFilesPerDay
                 \/ /\ after.pc \in {"verify", "mark"}
                    /\ after.path = job.path
                    /\ GetProcessedToday < cfg.maxFilesPerDay
       /\ (job.pc = "verify" /\ after # job) =>
              /\ after.pc = "mark"
              /\ after.path = job.path
              /\ queue' = queue
              /\ marksToday' = marksToday
       /\ after.pc = "mark" => after.moved = (after.err /\ cfg.failedDirectory # "")
       /\ (job.pc = "mark" /\ after # job) =>
              /\ after = IdleWorker
              /\ queue' = MarkProcessed(job.path)
              /\ marksToday' = marksToday + 1

C10_MarkedOnceAfterVerification ==
    [][/\ \A w \in Workers : C10_Step(w)
       /\ marksToday' > marksToday =>
              \E w \in Workers : worker[w].pc = "mark" /\ worker'[w] = IdleWorker
       /\ \A p \in Paths :
              (queue'[p].present /\ queue'[p].process_count # queue[p].process_count) =>
                  /\ queue'[p].process_count = queue[p].process_count + 1
                  /\ \E w \in Workers : /\ worker[w].pc = "mark"
                                         /\ worker[w].path = p
                                         /\ worker'[w] = IdleWorker]_vars

\* a verification failed, the file was moved away and the path was marked once
C10_Witness ==
    \E p \in Paths :
        /\ queue[p].processed
        /\ queue[p].process_count = 1
        /\ ~fileExists[p]
        /\ marksToday = 1
        /\ \A w \in Spawned : worker[w].pc = "idle"

(***************************************************************************)
(* C11: a fetch that returns a cancellation error never increments         *)
(* failed_segments and never makes its task return an error; failed        *)
(* segments are exactly the fetches that failed otherwise, so a            *)
(* cancellation that every fetch in flight observes yields no              *)
(* "exceeded allowed missing segments" error.                              *)
(***************************************************************************)
C11_CancellationAbsorbed ==
    /\ [](failedSegments = fetched.failed)
    /\ [](taskErrors + reporting <= fetched.failed)
    /\ [][fetched'.canceled # fetched.canceled =>
              /\ failedSegments' = failedSegments
              /\ reporting' = reporting
              /\ taskErrors' = taskErrors
              /\ done' = done]_vars

\* the outer scope was cancelled at the edge of the budget, two fetches in
\* flight saw it, and ProcessNZB returned no error
C11_Witness ==
    /\ nzbPc = "done"
    /\ done.outer
    /\ fetched.canceled >= 2
    /\ failedSegments = AllowedMissingSegments
    /\ taskErrors = 0
    /\ nzbResult = "nil"

(***************************************************************************)
(* C12: of the Add(p) calls on one path, in any order with the other       *)
(* calls, exactly the first returns true and every later one false; the    *)
(* table holds at most one row for p (file_path is its key).  Stated for   *)
(* the calls on a row that no prune has deleted.                           *)
(***************************************************************************)
C12_FirstAddOnly ==
    \A p \in Paths :
        ~qHist.pruned[p] =>
            \A i \in 1..Len(qHist.adds[p]) : qHist.adds[p][i] = (i = 1)

\* three Add calls on a path, a MarkProcessed among them
C12_Witness ==
    \E p \in Paths :
        /\ ~qHist.pruned[p]
        /\ Len(qHist.adds[p]) >= 3
        /\ qHist.marks[p] >= 1
        /\ queue[p].present

(***************************************************************************)
(* C13: process_count of a file_path never decreases, also when the path   *)
(* is pruned and discovered again.  The code violates it: PruneOldItems    *)
(* deletes the row and the next Add inserts it with process_count 0.       *)
(***************************************************************************)
C13_CountNeverDecreases ==
    \A p \in Paths :
        queue[p].present => queue[p].process_count >= qHist.maxCount[p]

(***************************************************************************)
(* C14: after k true-returning MarkProcessed(p) calls on a path added      *)
(* once, process_count(p) = k.                                             *)
(***************************************************************************)
C14_CountEqualsMarks ==
    \A p \in Paths :
        queue[p].present => queue[p].process_count = qHist.marks[p]

\* three MarkProcessed calls on one row
C14_Witness ==
    \E p \in Paths :
        /\ queue[p].present
        /\ qHist.marks[p] = 3
        /\ queue[p].process_count = 3

(***************************************************************************)
(* C15: for every item, processed_at is non-null if and only if            *)
(* processed = true and process_count >= 1.                                *)
(***************************************************************************)
C15_ProcessedAtIffProcessed ==
    \A p \in Paths :
        queue[p].present =>
            (queue[p].processed_at # NULL
                <=> (queue[p].processed /\ queue[p].process_count >= 1))

\* one row processed, one row added and not processed
C15_Witness ==
    \E p, q \in Paths :
        /\ queue[p].present /\ queue[p].processed /\ queue[p].processed_at # NULL
        /\ queue[q].present /\ ~queue[q].processed /\ queue[q].processed_at = NULL

(***************************************************************************)
(* C16: an item with processed_at = T is returned by                       *)
(* GetItemsDueForReprocessing(d) if and only if now - T >= d and d > 0,    *)
(* the boundary now - T = d included.  The code violates it at the         *)
(* boundary: it selects processed_at < now - d.                            *)
(***************************************************************************)
C16_EligibilityWindow ==
    \A p \in Paths, d \in 0..MaxInterval :
        (queue[p].present /\ queue[p].processed) =>
            (p \in GetItemsDueForReprocessing(d)
                <=> (d > 0 /\ now - queue[p].processed_at >= d))

(***************************************************************************)
(* C17: for every file with n >= 0 segments that ProcessNZB has gone       *)
(* through, with check_percent = c, the number of segments submitted is    *)
(* max(1, floor(n*c/100)) when c < 100 and n when c = 100.  The code       *)
(* submits nothing for a file without segments.                            *)
(***************************************************************************)
ClaimedCount(n) ==
    IF checkPercent < 100
    THEN (IF (n * checkPercent) \div 100 > 1 THEN (n * checkPercent) \div 100 ELSE 1)
    ELSE n

C17_SamplingSize ==
    \A f \in 1..Len(nzb) :
        f < fileIdx => submittedOf[f] = ClaimedCount(nzb[f])

(***************************************************************************)
(* C17 as amended: the count is as claimed for every file with n >= 1      *)
(* segments and 0 for a file without segments; inside a file every         *)
(* selected index the loop has passed was submitted once, and the selected *)
(* indices are indices of the file.                                        *)
(***************************************************************************)
C17_SamplingSizeAmended ==
    /\ \A f \in 1..Len(nzb) :
           f < fileIdx =>
               submittedOf[f] = IF nzb[f] = 0 THEN 0 ELSE ClaimedCount(nzb[f])
    /\ nzbPc = "segments" =>
           /\ selectedIndices \subseteq 0..(nzb[fileIdx] - 1)
           /\ submittedOf[fileIdx] = Cardinality({i \in selectedIndices : i < segIdx})

\* a file without segments and a file with one segment, sampled at 50 percent
C17_Witness ==
    /\ nzbPc = "done"
    /\ checkPercent = 50
    /\ \E f, g \in 1..Len(nzb) :
           /\ f < fileIdx /\ nzb[f] = 0 /\ submittedOf[f] = 0
           /\ g < fileIdx /\ nzb[g] = 1 /\ submittedOf[g] = 1

(***************************************************************************)
(* C18: once the outer scope has been cancelled no new fetch (a call of    *)
(* nntpClient.Body) is started.  The code violates it: the loop over the   *)
(* segments of a file does not look at the context, so the segments of the *)
(* file it is at are still submitted and their tasks call Body.            *)
(***************************************************************************)
C18_NoFetchAfterCancel == [][done.outer => running' <= running]_vars

(***************************************************************************)
(* C19: neither Start nor a worker ends because a verification failed: a   *)
(* worker that holds a path does not return, after an error it waits for   *)
(* the next path and receives it, and workers and Start return only after  *)
(* a cancellation or Stop.                                                 *)
(***************************************************************************)
C19_FailureNotFatal ==
    /\ [](\A w \in Workers : worker[w].pc = "exited" => (stopClosed \/ ctxCancelled))
    /\ [](scan.pc = "returned" => (stopClosed \/ ctxCancelled))
    /\ [](\A w \in Workers :
             (worker[w].pc = "idle" /\ processingQueue # <<>>) => ENABLED processFilesRecv(w))
    /\ [][\A w \in Workers :
             /\ worker[w].pc \in {"check", "verify", "mark"} => worker'[w].pc # "exited"
             /\ (worker[w].pc = "mark" /\ worker[w].err /\ worker'[w] # worker[w])
                    => worker'[w] = IdleWorker]_vars

\* the one worker had a verification fail and the file moved away, marked it,
\* and now verifies the next path; nobody stopped or cancelled
C19_Witness ==
    /\ Cardinality(Spawned) = 1
    /\ ~stopClosed
    /\ ~ctxCancelled
    /\ \E p, q \in Paths :
           /\ p # q
           /\ queue[p].processed
           /\ ~fileExists[p]
           /\ \E w \in Workers : worker[w].pc = "verify" /\ worker[w].path = q

(***************************************************************************)
(* C20: cancelling the outer scope or calling Stop a second time has the   *)
(* effect of doing it once and does not fail.  The code violates it: the   *)
(* second Stop closes the closed stopChan, which panics.                   *)
(***************************************************************************)
C20_SecondCallHarmless ==
    /\ scan.pc # "panicked"
    /\ \A w \in Workers : worker[w].pc # "panicked"

(***************************************************************************)
(* C21: a worker moves a file to the failed directory (calls               *)
(* moveToFailedDirectory on it) if and only if its verification returned   *)
(* an error and failed_directory is non-empty; a file whose verification   *)
(* passed is never moved.  As a property of every step: the verification   *)
(* ends with the move made exactly in that case, a file leaves its watch   *)
(* directory only in the step of a worker that holds it and whose          *)
(* verification fails with a failed directory configured, and a            *)
(* verification that passes leaves every file where it is.                 *)
(***************************************************************************)
C21_MovedIffFailed ==
    [][/\ \A w \in Workers :
              (worker[w].pc \in {"check", "verify"} /\ worker'[w].pc = "mark") =>
                  /\ worker'[w].moved <=> (worker'[w].err /\ cfg.failedDirectory # "")
                  /\ ~worker'[w].err => fileExists' = fileExists
       /\ \A p \in Paths :
              (fileExists[p] /\ ~fileExists'[p]) =>
                  /\ cfg.failedDirectory # ""
                  /\ \E w \in Workers : /\ worker[w].pc = "verify"
                                         /\ worker[w].path = p
                                         /\ worker'[w].pc = "mark"
                                         /\ worker'[w].err
                                         /\ worker'[w].moved]_vars

\* the one worker's first verification of a path failed and the file was moved
\* away; a second file passed and stays where it is
C21_Witness ==
    /\ Cardinality(Spawned) = 1
    /\ cfg.failedDirectory # ""
    /\ \E w \in Workers, p, q \in Paths :
           /\ worker[w].pc = "mark" /\ worker[w].path = p
           /\ worker[w].err /\ worker[w].moved
           /\ queue[p].process_count = 0
           /\ ~fileExists[p]
           /\ queue[q].processed /\ fileExists[q]

(***************************************************************************)
(* C22: for a failed file F located under a watch root R, a successful     *)
(* move puts it at failed_directory / relative(R, F), and afterwards the   *)
(* source path F no longer exists.  The code violates it: it takes as R    *)
(* the first watch directory whose path is a prefix of F as a string, so   *)
(* for the watch directories /n and /n2 a file of /n2 is placed relative   *)
(* to /n, at failed_directory/../n2/..., outside the failed directory.     *)
(***************************************************************************)
\* the file lies under the root: the elements of root begin those of file
Under(root, file) ==
    /\ Len(Elems(root)) < Len(Elems(file))
    /\ SubSeq(Elems(file), 1, Len(Elems(root))) = Elems(root)

\* relative(R, F) for F under R: the elements of F after those of R
Relative(root, file) ==
    JoinElems(SubSeq(Elems(file), Len(Elems(root)) + 1, Len(Elems(file))))

C22_QuarantineStructure ==
    (/\ mv.pc = "returned"
     /\ mv.result = "nil"
     /\ \E i \in 1..Len(mv.watchDirs) : Under(Abs(mv.watchDirs[i]), Abs(mv.filePath))) =>
        /\ \E i \in 1..Len(mv.watchDirs) :
               /\ Under(Abs(mv.watchDirs[i]), Abs(mv.filePath))
               /\ Abs(mv.targetPath)
                      = Abs(mv.failedDirectory \o Separator
                                \o Relative(Abs(mv.watchDirs[i]), Abs(mv.filePath)))
               /\ Abs(mv.targetPath) \in mv.files
        /\ Abs(mv.filePath) \notin mv.files

(***************************************************************************)
(* C23: within one ProcessNZB call the first task whose failure makes      *)
(* failed_segments exceed allowed_missing is the only task that reports    *)
(* the exceeded budget: at most one task returns an error and              *)
(* failed_segments never exceeds allowed_missing + 1.  The code violates   *)
(* it: every task whose fetch fails with another error than the            *)
(* cancellation counts its failure and, above the budget, returns an       *)
(* error, whether or not a task before it has done so.                     *)
(***************************************************************************)
C23_SingleReporter ==
    /\ taskErrors + reporting <= 1
    /\ failedSegments <= AllowedMissingSegments + 1

(***************************************************************************)
(* C24: one reprocess pass sends at most max_files_per_day -               *)
(* GetProcessedToday() paths onto the channel, the value the pass computes *)
(* at its start (none when it is <= 0), and sends nothing more after the   *)
(* first send that finds the channel full.  Only the sends of the pass put *)
(* a path on the channel while the pass runs.                              *)
(***************************************************************************)
C24_PassBounded ==
    /\ [](pass.sent <= IF pass.slots > 0 THEN pass.slots ELSE 0)
    /\ [][/\ pass.full => pass'.sent <= pass.sent
          /\ (scan.pc \in {"slots", "send"} /\ Len(processingQueue') > Len(processingQueue))
                 => (pass'.sent = pass.sent + 1 /\ ~pass.full)]_vars

\* two items were due and their files exist, one slot was available: the pass
\* has ended after one send, and not because the channel was full
C24_Witness ==
    /\ scan.pc = "prune"
    /\ pass = [slots |-> 1, sent |-> 1, full |-> FALSE]
    /\ \A p \in Paths : fileExists[p] /\ p \in GetItemsDueForReprocessing(cfg.reprocessInterval)

(***************************************************************************)
(* C25: a reprocess-eligible item whose file no longer exists on disk is   *)
(* never sent onto the worker channel, and the reprocess pass leaves its   *)
(* row unchanged (not removed, not marked).  As a property of every step:  *)
(* no step adds to the channel a processed path whose file is missing, and *)
(* the steps of the pass leave the table as it is.                         *)
(***************************************************************************)
TimesInChannel(ch, p) == Cardinality({i \in 1..Len(ch) : ch[i] = p})

\* the step is one of checkForReprocessItems
PassStep ==
    /\ scan' # scan
    /\ \/ scan.pc \in {"slots", "send"}
       \/ scan.pc = "walk" /\ scan.walk = {}

C25_MissingFileSkipped ==
    [][/\ \A p \in Paths :
              (queue[p].present /\ queue[p].processed /\ ~fileExists[p]) =>
                  TimesInChannel(processingQueue', p) <= TimesInChannel(processingQueue, p)
       /\ PassStep => queue' = queue]_vars

\* a pass with a slot has ended without a send and without a full channel: the
\* files of its items were missing; the row of a due item is as it was
C25_Witness ==
    /\ scan.pc = "prune"
    /\ pass.slots >= 1
    /\ pass.sent = 0
    /\ ~pass.full
    /\ \E p \in Paths :
           /\ ~fileExists[p]
           /\ p \in GetItemsDueForReprocessing(cfg.reprocessInterval)
           /\ queue[p].process_count = 1

(***************************************************************************)
(* C26: a scan never blocks on the worker channel: every send is           *)
(* non-blocking, so a scan that has begun (walk, reprocess pass, prune)    *)
(* runs to completion even when the channel is full and no worker ever     *)
(* receives; the next step of the scan can be taken in every state.        *)
(***************************************************************************)
Scanning == scan.pc \in {"walk", "slots", "send", "prune"}

C26_ScanNeverBlocks ==
    /\ Scanning ~> (scan.pc = "select")
    /\ [](Scanning =>
             ENABLED (\/ \E p \in Paths : scanDirectories(p)
                      \/ ReprocessGet
                      \/ ReprocessSlots
                      \/ ReprocessSend
                      \/ ScanPrune))

\* a scan has completed with the channel full: a new path was left out of it,
\* the worker is waiting and has never received a path
C26_Witness ==
    /\ scan.pc = "select"
    /\ ChannelFull
    /\ \E p \in Paths : skipped[p] = "full"
    /\ \A w \in Spawned : worker[w].pc = "idle"
    /\ \A p \in Paths : ~queue[p].processed

(***************************************************************************)
(* C27: the number of workers and the capacity of the worker channel both  *)
(* equal max(1, concurrent_jobs): once Start has spawned them there are    *)
(* that many workers, at most that many verifications run at the same time *)
(* and at most that many paths wait in the channel.                        *)
(***************************************************************************)
MaxOneOrJobs == IF cfg.concurrentProcessing > 1 THEN cfg.concurrentProcessing ELSE 1

C27_WorkersAndCapacity ==
    /\ scan.pc # "new" => Cardinality(Spawned) = MaxOneOrJobs
    /\ scan.pc = "new" => Spawned = {}
    /\ Cardinality({w \in Workers : worker[w].pc = "verify"}) <= MaxOneOrJobs
    /\ Len(processingQueue) <= MaxOneOrJobs

\* concurrent_jobs = 0: the one worker verifies a path and one path waits
C27_Witness ==
    /\ cfg.concurrentProcessing = 0
    /\ Cardinality(Spawned) = 1
    /\ \E w \in Workers : worker[w].pc = "verify"
    /\ Len(processingQueue) = 1

(***************************************************************************)
(* C28: during one ProcessNZB call the number of fetch tasks in flight     *)
(* (submitted and not yet returned) never exceeds the processor's          *)
(* configured concurrency, 10 when the configured value is <= 0.           *)
(***************************************************************************)
C28_InFlightBounded ==
    running + reporting <= IF configured <= 0 THEN 10 ELSE configured

\* two tasks are in flight under a concurrency of two, and the loop waits with
\* the next selected segment for one of them to return
C28_Witness ==
    /\ configured = 2
    /\ running + reporting = 2
    /\ nzbPc = "segments"
    /\ segIdx < nzb[fileIdx]
    /\ segIdx \in selectedIndices
    /\ ~ENABLED SubmitSegment

(***************************************************************************)
(* C29: a worker that has dequeued a path and finds                        *)
(* GetProcessedToday() >= max_files_per_day discards it: the path is       *)
(* neither verified nor moved to the failed directory nor marked, and its  *)
(* row is unchanged; the worker waits for the next path.                   *)
(***************************************************************************)
C29_DiscardedOverLimit ==
    [][\A w \in Workers :
          (/\ worker[w].pc = "check"
           /\ worker'[w] # worker[w]
           /\ GetProcessedToday >= cfg.maxFilesPerDay) =>
              /\ worker'[w] = IdleWorker
              /\ queue' = queue
              /\ fileExists' = fileExists
              /\ marksToday' = marksToday]_vars

\* a path was sent and never marked, its file is there, nobody holds it and
\* the channel is empty: the worker discarded it, the limit being reached
C29_Witness ==
    /\ ~dbClosed
    /\ GetProcessedToday >= cfg.maxFilesPerDay
    /\ processingQueue = <<>>
    /\ \A w \in Spawned : worker[w].pc = "idle"
    /\ \E p \in Paths :
           /\ sendsSinceMark[p] >= 1
           /\ queue[p].present
           /\ ~queue[p].processed
           /\ fileExists[p]

(***************************************************************************)
(* C30: PruneOldItems(max_age) deletes exactly the items with              *)
(* processed = true and processed_at < now - max_age, never deletes an     *)
(* item with processed = false, leaves every other row as it is, and       *)
(* returns the number of items deleted.  As a property of every call on    *)
(* the open queue.                                                         *)
(***************************************************************************)
C30_PruneExact ==
    [][qHist'.prunes # qHist.prunes =>
          \E olderThan \in PruneDurations :
              LET deleted == {p \in Paths : queue[p].present /\ ~queue'[p].present}
              IN /\ deleted = {p \in Paths : /\ queue[p].present
                                             /\ queue[p].processed
                                             /\ queue[p].processed_at < now - olderThan}
                 /\ \A p \in deleted : queue[p].processed
                 /\ \A p \in Paths \ deleted : queue'[p] = queue[p]
                 /\ qHist'.returned = Cardinality(deleted)]_vars

\* a call has deleted the one row processed more than max_age ago and returned
\* 1; the row never processed is still there
C30_Witness ==
    /\ qHist.returned = 1
    /\ \E p, q \in Paths :
           /\ qHist.pruned[p] /\ ~queue[p].present
           /\ queue[q].present /\ ~queue[q].processed /\ ~qHist.pruned[q]

(***************************************************************************)
(* C31: the operations that do not succeed as a write leave the table      *)
(* unchanged: Add of a path already present (its row, added_at and         *)
(* counters are kept), MarkProcessed of a path not present, which returns  *)
(* false, and the reads Contains, GetItemsDueForReprocessing and           *)
(* GetProcessedToday; MarkProcessed never changes added_at.                *)
(***************************************************************************)
C31_NoWriteNoChange ==
    [][/\ \A p \in Paths :
              (qHist'.lastAdd[p] # qHist.lastAdd[p] /\ queue[p].present) =>
                  /\ qHist'.lastAdd[p] = "false"
                  /\ queue' = queue
                  /\ qHist'.added = qHist.added
       /\ \A p \in Paths :
              (\/ qHist'.lastMark[p] # qHist.lastMark[p]
               \/ queue'[p].process_count > queue[p].process_count) =>
                  /\ qHist'.added = qHist.added
                  /\ qHist'.lastMark[p] = IF queue[p].present THEN "true" ELSE "false"
                  /\ ~queue[p].present => queue' = queue
       /\ qHist'.lastRead # qHist.lastRead =>
              /\ queue' = queue
              /\ qHist'.added = qHist.added]_vars

\* a row added earlier and processed was offered to Add again and refused, a
\* MarkProcessed of a path without a row returned false, a read has run
C31_Witness ==
    /\ qHist.lastRead # "none"
    /\ \E p, q \in Paths :
           /\ queue[p].present /\ queue[p].processed
           /\ qHist.added[p] # NULL /\ qHist.added[p] < queue[p].processed_at
           /\ qHist.lastAdd[p] = "false"
           /\ ~queue[q].present
           /\ qHist.lastMark[q] = "false"
           /\ qHist.lastAdd[q] = "none"

(***************************************************************************)
(* C32: for a failed file F that lies under none of the watch roots the    *)
(* destination is failed_directory / basename(F); in every case the        *)
(* destination lies inside failed_directory.  The code violates both: with *)
(* the watch directory /n, the file /n2/a of an earlier configuration lies *)
(* under no watch root, yet /n is a prefix of its path as a string, and    *)
(* the destination is failed_directory/../n2/a.                            *)
(***************************************************************************)
C32_DestinationInsideFailedDirectory ==
    (mv.pc = "returned" /\ mv.result = "nil") =>
        /\ (\A i \in 1..Len(mv.watchDirs) : ~Under(Abs(mv.watchDirs[i]), Abs(mv.filePath)))
               => Abs(mv.targetPath)
                      = Abs(mv.failedDirectory \o Separator \o Base(mv.filePath))
        /\ Under(Abs(mv.failedDirectory), Abs(mv.targetPath))

(***************************************************************************)
(* C33: if ProcessNZB returns success, every file of the manifest was gone *)
(* through, every selected segment was fetched to completion (success or   *)
(* counted failure, none given up for a cancellation) and at most          *)
(* allowed_missing of the fetches failed; a verification interrupted by    *)
(* the cancellation of the outer scope does not return success.  The code  *)
(* violates it: the body returns ctx.Err(), but the deferred               *)
(* workerPool.Wait() replaces it by the errors of the tasks, and a task    *)
(* whose fetch was cancelled returns nil.                                  *)
(***************************************************************************)
C33_SuccessMeansVerified ==
    (nzbPc = "done" /\ nzbResult = "nil") =>
        /\ fileIdx > Len(nzb)
        /\ fetched.canceled = 0
        /\ fetched.ok + fetched.failed = SumSegments(submittedOf)
        /\ failedSegments <= AllowedMissingSegments

(***************************************************************************)
(* C34: if at least one segment is sampled and every sampled fetch fails   *)
(* with a non-cancellation error, ProcessNZB returns failure.  The code    *)
(* returns success when the sampled segments are no more than the budget,  *)
(* which is taken over all segments of the manifest: 2 segments, 50        *)
(* percent sampled, 50 percent allowed missing.                            *)
(***************************************************************************)
AllSampledFailed ==
    /\ nzbPc = "done"
    /\ SumSegments(submittedOf) >= 1
    /\ fetched.failed = SumSegments(submittedOf)

C34_AllFailedIsFailure == AllSampledFailed => nzbResult = "error"

(***************************************************************************)
(* C34 as amended: if at least one segment is sampled, the number of       *)
(* sampled segments exceeds floor(total_segments * missing_percent / 100), *)
(* and every sampled fetch fails with a non-cancellation error, ProcessNZB *)
(* returns failure.                                                        *)
(***************************************************************************)
C34_AllFailedIsFailureAmended ==
    (/\ AllSampledFailed
     /\ SumSegments(submittedOf) > (TotalSegmentsInNZB * missingPercent) \div 100)
        => nzbResult = "error"

\* two files of one segment, a budget of one: both fetches failed
C34_Witness ==
    /\ AllSampledFailed
    /\ nzb = <<1, 1>>
    /\ missingPercent = 50
    /\ fetched.failed = 2
    /\ nzbResult = "error"

(***************************************************************************)
(* C35: no operation of the queue (MarkProcessed, GetProcessedToday, Add,  *)
(* Contains, PruneOldItems) is invoked after Stop has closed it; a worker  *)
(* whose verification is in flight when Stop runs still records its        *)
(* MarkProcessed.  As a property of every step: a step that calls the      *)
(* queue is taken with the database open.  Stop closes the database at     *)
(* once, while a worker is still verifying.                                *)
(***************************************************************************)
QueueCall ==
    \/ \E w \in Workers : processFilesMark(w)
    \/ \E w \in Workers : processFilesCheck(w)
    \/ \E p \in Paths : ~ctxCancelled /\ scanDirectories(p)
    \/ ReprocessSlots
    \/ ScanPrune

C35_NoCallAfterClose == [][QueueCall => ~dbClosed]_vars

(***************************************************************************)
(* C36: after a restart every row with processed = false whose file still  *)
(* exists is eventually sent to a worker and verified.  Stated from the    *)
(* first state of the new run, for as long as the file stays and the       *)
(* scheduler is neither stopped nor cancelled.  The code violates it: the  *)
(* walk skips the path because it has a row, and nothing else reads the    *)
(* rows that are not processed.                                            *)
(***************************************************************************)
C36_PendingResumedAfterRestart ==
    \A p \in Paths :
        (queue[p] = NewRow /\ fileExists[p])
            => <>(PickedUp(p) \/ ~fileExists[p] \/ stopClosed \/ ctxCancelled)

(***************************************************************************)
(* C37: with reprocessing disabled (reprocess_interval <= 0) each file     *)
(* path is verified at most once over the whole run, however many scans    *)
(* and prunes occur while the file stays on disk.  The code violates it:   *)
(* thirty days after the verification the prune deletes the row, and the   *)
(* next scan finds the file as a new one.                                  *)
(***************************************************************************)
C37_VerifiedAtMostOnce ==
    \A p \in Paths : cfg.reprocessInterval <= 0 => qHist.verified[p] <= 1

(***************************************************************************)
(* C38: ProcessNZB terminates for every manifest (files with 0 or 1        *)
(* segments included) and every check_percent, provided every fetcher call *)
(* returns; the random selection ends with exactly the number of distinct  *)
(* indices it has to produce (segmentsToCheck when the file has more       *)
(* segments than that, every index of the file otherwise); and ProcessNZB  *)
(* returns only after every submitted fetch task has completed.            *)
(***************************************************************************)
SelectionExact ==
    LET n == nzb[fileIdx]
    IN /\ selectedIndices \subseteq 0..(n - 1)
       /\ Cardinality(selectedIndices) = Min(SegmentsToCheck(n), n)

AllTasksCompleted ==
    /\ running = 0
    /\ reporting = 0
    /\ fetched.ok + fetched.failed + fetched.canceled = SumSegments(submittedOf)

C38_Terminates ==
    /\ <>(nzbPc = "done")
    /\ [](nzbPc = "segments" => SelectionExact)
    /\ [](nzbPc = "done" => AllTasksCompleted)

\* two of three segments were drawn, fetched, and ProcessNZB has returned
C38_Witness ==
    /\ nzbPc = "done"
    /\ nzb = <<3>>
    /\ checkPercent = 75
    /\ Cardinality(selectedIndices) = 2
    /\ fetched.ok + fetched.failed = 2

====
